---- MODULE Spec2Model ----
(***************************************************************************)
(* A model of the `mark` parser (src/mark/src/parser.rs): the node arena,  *)
(* the line dispatcher parse_lines with its block matchers, the inline     *)
(* scanner parse_inlines and the materializer build_doc.                   *)
(*                                                                         *)
(* A line is a sequence of one-character strings.  Rust's indices are      *)
(* 0-based and kept so: node i of the arena is nodes[i + 1], character i   *)
(* of a line is line[i + 1], line i of a slice is lines[i + 1].  All       *)
(* characters of the model are ASCII, so a byte length is a character      *)
(* count.                                                                  *)
(***************************************************************************)
EXTENDS Integers, Sequences, FiniteSets, TLC

VARIABLES
  buf,     \* Parser.buf, as the lines `buf.lines()` yields
  nodes,   \* Parser.nodes, the arena
  stack,   \* the activations of parse_lines, the innermost last
  scan,    \* the activation of parse_inlines, when pc = "parse_inlines"
  pc,      \* where the parse is: parse_lines, parse_inlines, done, panic
  doc,     \* the Doc returned by parse, once pc = "done"
  html,    \* the String doc.to_string() returns, once pc = "written"
  req,     \* the String given to Request::try_from, as the lines `req.lines()` yields
  res      \* the Result Request::try_from returns

vars == <<buf, nodes, stack, scan, pc, doc, html, req, res>>

----------------------------------------------------------------------------
(* Characters and string slices *)

\* the backquote character (U+0060), which a TLA+ string cannot hold
Backtick == "backquote"

Digits == <<"0", "1", "2", "3", "4", "5", "6", "7", "8", "9">>
LowerLetters == <<"a", "b", "c", "d", "e", "f", "g", "h", "i", "j", "k", "l", "m",
                  "n", "o", "p", "q", "r", "s", "t", "u", "v", "w", "x", "y", "z">>
UpperLetters == <<"A", "B", "C", "D", "E", "F", "G", "H", "I", "J", "K", "L", "M",
                  "N", "O", "P", "Q", "R", "S", "T", "U", "V", "W", "X", "Y", "Z">>

Range(s) == {s[i] : i \in 1..Len(s)}
IndexOf(s, c) == CHOOSE i \in 1..Len(s) : s[i] = c

\* char::is_whitespace and the regex class \s, on the model's characters
is_whitespace(c) == c \in {" ", "\t"}
IsDigit(c) == c \in Range(Digits)
IsLower(c) == c \in Range(LowerLetters)
IsUpper(c) == c \in Range(UpperLetters)
\* a character under the regex flag (?i)
ToLower(c) == IF IsUpper(c) THEN LowerLetters[IndexOf(UpperLetters, c)] ELSE c
LowerStr(s) == [i \in 1..Len(s) |-> ToLower(s[i])]

\* &s[a..b] and &s[a..]
Slice(s, a, b) == SubSeq(s, a + 1, b)
From(s, a) == SubSeq(s, a + 1, Len(s))

\* the length of the longest prefix of s whose characters satisfy the class
LeadWs(s) ==
  CHOOSE n \in 0..Len(s) :
    /\ \A i \in 1..n : is_whitespace(s[i])
    /\ n = Len(s) \/ ~is_whitespace(s[n + 1])
TrailWs(s) ==
  CHOOSE n \in 0..Len(s) :
    /\ \A i \in (Len(s) - n + 1)..Len(s) : is_whitespace(s[i])
    /\ n = Len(s) \/ ~is_whitespace(s[Len(s) - n])
LeadRun(s, c) ==
  CHOOSE n \in 0..Len(s) :
    /\ \A i \in 1..n : s[i] = c
    /\ n = Len(s) \/ s[n + 1] # c
LeadNonWs(s) ==
  CHOOSE n \in 0..Len(s) :
    /\ \A i \in 1..n : ~is_whitespace(s[i])
    /\ n = Len(s) \/ is_whitespace(s[n + 1])
LeadDigits(s) ==
  CHOOSE n \in 0..Len(s) :
    /\ \A i \in 1..n : IsDigit(s[i])
    /\ n = Len(s) \/ ~IsDigit(s[n + 1])

\* str::trim, str::trim_start
TrimStart(s) == From(s, LeadWs(s))
Trim(s) == IF LeadWs(s) = Len(s) THEN <<>> ELSE Slice(s, LeadWs(s), Len(s) - TrailWs(s))
\* str::trim().is_empty()
IsBlank(s) == LeadWs(s) = Len(s)
\* str::contains, str::starts_with
Contains(s, pat) == \E i \in 0..(Len(s) - Len(pat)) : Slice(s, i, i + Len(pat)) = pat
StartsWith(s, pat) == Len(s) >= Len(pat) /\ Slice(s, 0, Len(pat)) = pat
StartsWithNoCase(s, pat) == Len(s) >= Len(pat) /\ LowerStr(Slice(s, 0, Len(pat))) = pat

----------------------------------------------------------------------------
(* Kind, Node and the arena *)

KDoc == [tag |-> "Doc"]
KBlockquote == [tag |-> "Blockquote"]
KListElement == [tag |-> "ListElement"]
KParagraph == [tag |-> "Paragraph"]
KThematicBreak == [tag |-> "ThematicBreak"]
KRawHtml == [tag |-> "RawHtml"]
KHeader(lvl) == [tag |-> "Header", lvl |-> lvl]
\* Code(Option<&str>): is_some tells Some(lang) from None
KCode(is_some, lang) == [tag |-> "Code", is_some |-> is_some, lang |-> lang]
KList(data) == [tag |-> "List", data |-> data]
KText(txt) == [tag |-> "Text", txt |-> txt]
KInline(el) == [tag |-> "Inline", el |-> el]

ListData(to_marker, after_marker, marker, close, start_value) ==
  [dist_to_marker |-> to_marker, dist_after_marker |-> after_marker,
   marker |-> marker, close |-> close, start_value |-> start_value]

NodeNew(kind) == [kind |-> kind, open |-> TRUE, blocks |-> <<>>]

\* self.nodes[i]
Nd(ns, i) == ns[i + 1]
root == 0

\* is_closed_by, were a Header closed by a Paragraph as well
is_closed_by_header(self, kind) ==
  IF kind.tag = "Inline" THEN FALSE
  ELSE IF kind.tag = "Text" THEN FALSE
  ELSE CASE self.kind.tag \in {"Doc", "Blockquote", "ListElement", "RawHtml"} -> FALSE
         [] self.kind.tag = "Paragraph" -> kind # KParagraph
         [] OTHER -> TRUE

is_closed_by(self, kind) ==
  IF kind.tag = "Inline" THEN FALSE
  ELSE IF kind.tag = "Text" THEN FALSE
  ELSE CASE self.kind.tag \in {"Doc", "Blockquote", "ListElement", "RawHtml"} -> FALSE
         [] self.kind.tag \in {"Paragraph", "Header"} -> kind # KParagraph
         [] OTHER -> TRUE

\* is_closed_by_hardbreak, were a blank line to end whatever block is open
is_closed_by_hardbreak_any(self) == self.open
is_closed_by_hardbreak(self) == self.kind = KParagraph

RECURSIVE find_open_node(_, _)
find_open_node(ns, idx) ==
  LET b == Nd(ns, idx).blocks IN
  IF Len(b) > 0 /\ Nd(ns, b[Len(b)]).open
  THEN find_open_node(ns, b[Len(b)])
  ELSE idx

\* close_node, were it to flip the flag
close_node_toggle(ns, idx) == [ns EXCEPT ![idx + 1].open = ~@]
close_node(ns, idx) == [ns EXCEPT ![idx + 1].open = FALSE]

\* The open chain: the root, then the last child while that child is open
RECURSIVE ChainFrom(_, _)
ChainFrom(ns, idx) ==
  {idx} \cup (IF Len(Nd(ns, idx).blocks) > 0
                 /\ Nd(ns, Nd(ns, idx).blocks[Len(Nd(ns, idx).blocks)]).open
              THEN ChainFrom(ns, Nd(ns, idx).blocks[Len(Nd(ns, idx).blocks)])
              ELSE {})
OnChain(ns) == ChainFrom(ns, root)

\* the loop of get_open_parent_for: the arena after the closings, and the parent
RECURSIVE get_open_parent_for(_, _)
get_open_parent_for(ns, kind) ==
  LET i == find_open_node(ns, root) IN
  IF is_closed_by(Nd(ns, i), kind)
  THEN get_open_parent_for(close_node(ns, i), kind)
  ELSE [ns |-> ns, i |-> i]

\* add_node_to_parent, were it to push the child's index twice
add_node_to_parent_twice(ns, parent, kind) ==
  LET pushed == Append(ns, NodeNew(kind) @@ [attached |-> parent \in OnChain(ns)])
      val == Len(pushed) - 1
  IN [ns |-> [pushed EXCEPT ![parent + 1].blocks = Append(Append(@, val), val)],
      val |-> val]

\* The pushed node carries one history field the program does not have:
\* attached, whether parent was on the open chain when the node was pushed
\* onto parent's blocks.
add_node_to_parent(ns, parent, kind) ==
  LET pushed == Append(ns, NodeNew(kind) @@ [attached |-> parent \in OnChain(ns)])
      val == Len(pushed) - 1
  IN [ns |-> [pushed EXCEPT ![parent + 1].blocks = Append(@, val)], val |-> val]

\* add_node, were it to take the deepest open node before get_open_parent_for
\* closes what kind closes
add_node_stale(ns, kind) ==
  add_node_to_parent(get_open_parent_for(ns, kind).ns, find_open_node(ns, root), kind)
add_node(ns, kind) ==
  LET p == get_open_parent_for(ns, kind) IN add_node_to_parent(p.ns, p.i, kind)

\* a is what add_node returned: self.nodes[a.val].open = false
closed(a) == [a.ns EXCEPT ![a.val + 1].open = FALSE]
\* add_text_node leaving the Text node open
add_text_node_open(ns, txt) == add_node(ns, KText(txt)).ns
add_text_node(ns, txt) == closed(add_node(ns, KText(txt)))

\* the None of find_parent_list's Option<usize>
NoList == -1

\* find_parent_list, were it to test a List before the Lists below it
RECURSIVE find_parent_list_outer(_, _, _, _, _, _)
find_parent_list_outer(ns, idx, to_marker, after_marker, marker, marker_close) ==
  LET b == Nd(ns, idx).blocks IN
  IF Len(b) > 0 /\ Nd(ns, b[Len(b)]).open
  THEN LET i == b[Len(b)]
           data == Nd(ns, i).kind.data
       IN IF /\ Nd(ns, i).kind.tag = "List"
             /\ data.dist_to_marker <= to_marker
             /\ (after_marker = 0 \/ data.dist_after_marker <= after_marker)
             /\ to_marker <= data.dist_to_marker + data.dist_after_marker
             /\ data.marker = marker
             /\ data.close = marker_close
          THEN i
          ELSE find_parent_list_outer(ns, i, to_marker, after_marker, marker, marker_close)
  ELSE NoList

RECURSIVE find_parent_list(_, _, _, _, _, _)
find_parent_list(ns, idx, to_marker, after_marker, marker, marker_close) ==
  LET b == Nd(ns, idx).blocks IN
  IF Len(b) > 0 /\ Nd(ns, b[Len(b)]).open
  THEN LET i == b[Len(b)]
           ret == find_parent_list(ns, i, to_marker, after_marker, marker, marker_close)
           data == Nd(ns, i).kind.data
       IN IF ret # NoList THEN ret
          ELSE IF /\ Nd(ns, i).kind.tag = "List"
                  /\ data.dist_to_marker <= to_marker
                  /\ (after_marker = 0 \/ data.dist_after_marker <= after_marker)
                  /\ to_marker <= data.dist_to_marker + data.dist_after_marker
                  /\ data.marker = marker
                  /\ data.close = marker_close
               THEN i
               ELSE NoList
  ELSE NoList

----------------------------------------------------------------------------
(* parse_marker *)

RECURSIVE DecimalValue(_)
DecimalValue(ds) ==
  IF Len(ds) = 0 THEN 0
  ELSE 10 * DecimalValue(SubSeq(ds, 1, Len(ds) - 1)) + (IndexOf(Digits, ds[Len(ds)]) - 1)

\* parse_marker, were i and I letters like the others
parse_marker_alpha(marker) ==
  LET marker_first == marker[1]
      last == IF Len(marker) >= 2 THEN marker[Len(marker)] ELSE ""
      marker_close == CASE last = ")" -> "Bracket"
                        [] last = "." -> "Dot"
                        [] OTHER -> "None"
      body == SubSeq(marker, 1, Len(marker) - 1)
      parses == Len(body) > 0 /\ \A i \in 1..Len(body) : IsDigit(body[i])
  IN CASE marker_first = "*" -> [kind |-> "Bullet", close |-> marker_close, start |-> 1]
       [] marker_first = "-" -> [kind |-> "Dash", close |-> marker_close, start |-> 1]
       [] marker_first = "+" -> [kind |-> "Plus", close |-> marker_close, start |-> 1]
       [] IsLower(marker_first) ->
            [kind |-> "LowerAlpha", close |-> marker_close,
             start |-> IndexOf(LowerLetters, marker_first)]
       [] IsUpper(marker_first) ->
            [kind |-> "UpperAlpha", close |-> marker_close,
             start |-> IndexOf(UpperLetters, marker_first)]
       [] OTHER -> [kind |-> "Numeric", close |-> marker_close,
                    start |-> IF parses THEN DecimalValue(body) ELSE 1]

\* marker is the trimmed marker token; chars.last() is taken after chars.next()
parse_marker(marker) ==
  LET marker_first == marker[1]
      last == IF Len(marker) >= 2 THEN marker[Len(marker)] ELSE ""
      marker_close == CASE last = ")" -> "Bracket"
                        [] last = "." -> "Dot"
                        [] OTHER -> "None"
      body == SubSeq(marker, 1, Len(marker) - 1)
      parses == Len(body) > 0 /\ \A i \in 1..Len(body) : IsDigit(body[i])
  IN CASE marker_first = "*" -> [kind |-> "Bullet", close |-> marker_close, start |-> 1]
       [] marker_first = "-" -> [kind |-> "Dash", close |-> marker_close, start |-> 1]
       [] marker_first = "+" -> [kind |-> "Plus", close |-> marker_close, start |-> 1]
       [] marker_first = "i" -> [kind |-> "LowerRoman", close |-> marker_close, start |-> 1]
       [] marker_first = "I" -> [kind |-> "UpperRoman", close |-> marker_close, start |-> 1]
       [] marker_first \notin {"i", "I"} /\ IsLower(marker_first) ->
            [kind |-> "LowerAlpha", close |-> marker_close,
             start |-> IndexOf(LowerLetters, marker_first)]
       [] marker_first \notin {"i", "I"} /\ IsUpper(marker_first) ->
            [kind |-> "UpperAlpha", close |-> marker_close,
             start |-> IndexOf(UpperLetters, marker_first)]
       [] OTHER -> [kind |-> "Numeric", close |-> marker_close,
                    start |-> IF parses THEN DecimalValue(body) ELSE 1]

----------------------------------------------------------------------------
(* The line grammars (the lazy_static regular expressions), each computed as
   the regex crate matches it: leftmost-first, greedy unless marked lazy *)

\* try_setext_header RE  ^\s*(\-{3,}|={3,})\s*$
SetextMatch(line) ==
  LET t == Trim(line) IN
  /\ Len(t) >= 3
  /\ \/ \A i \in 1..Len(t) : t[i] = "-"
     \/ \A i \in 1..Len(t) : t[i] = "="

\* try_thematic_break RE  ^((\s*\*){3,}|(\s*\-){3,}|(\s*_){3,})\s*$
ThematicMatch(line) ==
  \E c \in {"*", "-", "_"} :
    /\ \A i \in 1..Len(line) : line[i] = c \/ is_whitespace(line[i])
    /\ Cardinality({i \in 1..Len(line) : line[i] = c}) >= 3

\* try_header RE  ^\s*(\#{1,6})(\s+(.*?))?(\s+\#*)?\s*$
HeaderMatch(line) ==
  LET r == TrimStart(line)
      n == LeadRun(r, "#")
  IN n \in 1..6 /\ (Len(r) = n \/ is_whitespace(r[n + 1]))
\* capture 1's length
HeaderLevel(line) == LeadRun(TrimStart(line), "#")
\* what (\s+\#*)?\s*$ matches
HeaderTail(t) ==
  LET w == LeadWs(t)
      afterWs == From(t, w)
  IN IsBlank(t) \/ (w >= 1 /\ IsBlank(From(afterWs, LeadRun(afterWs, "#"))))
\* capture 3, the lazy (.*?), or "" when group 2 did not take part
HeaderCapture(line) ==
  LET r == TrimStart(line)
      afterHashes == From(r, LeadRun(r, "#"))
      s == TrimStart(afterHashes)
      k == CHOOSE k \in 0..Len(s) :
             /\ HeaderTail(From(s, k))
             /\ \A j \in 0..(k - 1) : ~HeaderTail(From(s, j))
  IN Slice(s, 0, k)

\* try_blockquote RE  ^(\s*>\s?) : capture 1's length, 0 when the line does not match
BlockquoteMarker(line) ==
  LET w == LeadWs(line) IN
  IF w < Len(line) /\ line[w + 1] = ">"
  THEN w + 1 + (IF w + 1 < Len(line) /\ is_whitespace(line[w + 2]) THEN 1 ELSE 0)
  ELSE 0

\* try_fenced_code START_RE  ^(\s*)(`{3,}|~{3,})\s*([^\s]*)(.*)$
\* the length of the (`{3,}|~{3,}) run r starts with, below 3 when it starts with none
FenceRun(r) ==
  IF Len(r) > 0 /\ r[1] \in {Backtick, "~"} THEN LeadRun(r, r[1]) ELSE 0
\* captures 3 and 4 from the text after the fence and \s*
FenceCaptures(indent, marker, afterFence) ==
  [matched |-> Len(marker) >= 3, indent |-> indent, marker |-> marker,
   lang_str |-> Slice(afterFence, 0, LeadNonWs(afterFence)),
   rem |-> From(afterFence, LeadNonWs(afterFence))]
FenceSplit(r, indent, m) == FenceCaptures(indent, Slice(r, 0, m), TrimStart(From(r, m)))
FenceStart(line) == FenceSplit(TrimStart(line), LeadWs(line), FenceRun(TrimStart(line)))
\* try_fenced_code END_RE  ^\s*(`{3,}|~{3,})\s*$
FenceEndMatch(line) ==
  LET t == Trim(line) IN
  /\ Len(t) >= 3
  /\ \/ \A i \in 1..Len(t) : t[i] = Backtick
     \/ \A i \in 1..Len(t) : t[i] = "~"
\* END_RE's capture 1
FenceEndMarker(line) == Trim(line)

\* try_list RE
\*   ^(\s*(?:\*|\+|\-|(?:(?:[0-9]{1,9}|[a-z]|[A-Z])(?:\.|\)))))(?:(\s{1,4})(.*)|)?$
\* the length of the marker token r starts with, 0 when it starts with none:
\*   \*|\+|\-|(?:(?:[0-9]{1,9}|[a-z]|[A-Z])(?:\.|\)))
ListToken(r) ==
  IF Len(r) = 0 THEN 0
  ELSE IF r[1] \in {"*", "+", "-"} THEN 1
  ELSE IF LeadDigits(r) \in 1..9 /\ Len(r) > LeadDigits(r) /\ r[LeadDigits(r) + 1] \in {".", ")"}
       THEN LeadDigits(r) + 1
  ELSE IF (IsLower(r[1]) \/ IsUpper(r[1])) /\ Len(r) > 1 /\ r[2] \in {".", ")"} THEN 2
  ELSE 0
\* the length \s{1,4} takes of rest
ListSpaces(rest) == IF LeadWs(rest) > 4 THEN 4 ELSE LeadWs(rest)
\* the captures, given the length m of capture 1 and whether a token was found
ListCaptures(line, m, token) ==
  [matched |-> token /\ (Len(line) = m \/ is_whitespace(line[m + 1])),
   marker |-> Slice(line, 0, m),
   sp |-> Slice(line, m, m + ListSpaces(From(line, m))),
   rem |-> From(line, m + ListSpaces(From(line, m)))]
ListMatch(line) ==
  ListCaptures(line, LeadWs(line) + ListToken(TrimStart(line)), ListToken(TrimStart(line)) > 0)

\* try_raw_html TAG_OPEN_RE's names
TagNames ==
  {<<"a", "d", "d", "r", "e", "s", "s">>, <<"a", "r", "t", "i", "c", "l", "e">>,
   <<"a", "s", "i", "d", "e">>, <<"b", "a", "s", "e">>,
   <<"b", "a", "s", "e", "f", "o", "n", "t">>,
   <<"b", "l", "o", "c", "k", "q", "u", "o", "t", "e">>, <<"b", "o", "d", "y">>,
   <<"c", "a", "p", "t", "i", "o", "n">>, <<"c", "e", "n", "t", "e", "r">>,
   <<"c", "o", "l">>, <<"c", "o", "l", "g", "r", "o", "u", "p">>, <<"d", "d">>,
   <<"d", "e", "t", "a", "i", "l", "s">>, <<"d", "i", "a", "l", "o", "g">>,
   <<"d", "i", "r">>, <<"d", "i", "v">>, <<"d", "l">>, <<"d", "t">>,
   <<"f", "i", "e", "l", "d", "s", "e", "t">>,
   <<"f", "i", "g", "c", "a", "p", "t", "i", "o", "n">>, <<"f", "i", "g", "u", "r", "e">>,
   <<"f", "o", "o", "t", "e", "r">>, <<"f", "o", "r", "m">>, <<"f", "r", "a", "m", "e">>,
   <<"f", "r", "a", "m", "e", "s", "e", "t">>, <<"h", "1">>, <<"h", "2">>, <<"h", "3">>,
   <<"h", "4">>, <<"h", "e", "a", "d">>, <<"h", "e", "a", "d", "e", "r">>, <<"h", "r">>,
   <<"h", "t", "m", "l">>, <<"i", "f", "r", "a", "m", "e">>,
   <<"l", "e", "g", "e", "n", "d">>, <<"l", "i">>, <<"l", "i", "n", "k">>,
   <<"m", "a", "i", "n">>, <<"m", "e", "n", "u">>,
   <<"m", "e", "n", "u", "i", "t", "e", "m">>, <<"n", "a", "v">>,
   <<"n", "o", "f", "r", "a", "m", "e", "s">>, <<"o", "l">>,
   <<"o", "p", "t", "g", "r", "o", "u", "p">>, <<"o", "p", "t", "i", "o", "n">>, <<"p">>,
   <<"p", "a", "r", "a", "m">>, <<"s", "e", "c", "t", "i", "o", "n">>,
   <<"s", "o", "u", "r", "c", "e">>, <<"s", "u", "m", "m", "a", "r", "y">>,
   <<"t", "a", "b", "l", "e">>, <<"t", "b", "o", "d", "y">>, <<"t", "d">>,
   <<"t", "f", "o", "o", "t">>, <<"t", "h">>, <<"t", "h", "e", "a", "d">>,
   <<"t", "i", "t", "l", "e">>, <<"t", "r">>, <<"t", "r", "a", "c", "k">>, <<"u", "l">>}

\* (\s|/?>|$) after the first k characters of r
TagEnd(r, k) ==
  \/ Len(r) = k
  \/ is_whitespace(r[k + 1])
  \/ r[k + 1] = ">"
  \/ r[k + 1] = "/" /\ Len(r) >= k + 2 /\ r[k + 2] = ">"

\* SCRIPT_PRE_OR_STYLE_OPEN_RE  ^\s*<(?i)(script|pre|style)(\s|>|$)
ScriptOpen(line) ==
  LET r == TrimStart(line) IN
  /\ StartsWith(r, <<"<">>)
  /\ \E n \in {<<"s", "c", "r", "i", "p", "t">>, <<"p", "r", "e">>, <<"s", "t", "y", "l", "e">>} :
       /\ StartsWithNoCase(From(r, 1), n)
       /\ LET k == 1 + Len(n) IN Len(r) = k \/ is_whitespace(r[k + 1]) \/ r[k + 1] = ">"
\* SCRIPT_PRE_OR_STYLE_CLOSE_RE  </(?i)(script|pre|style)>
ScriptClose(line) ==
  \E n \in {<<"s", "c", "r", "i", "p", "t">>, <<"p", "r", "e">>, <<"s", "t", "y", "l", "e">>} :
    \E i \in 0..(Len(line) - Len(n) - 3) :
      /\ Slice(line, i, i + 2) = <<"<", "/">>
      /\ LowerStr(Slice(line, i + 2, i + 2 + Len(n))) = n
      /\ line[i + 3 + Len(n)] = ">"
\* COMMENT_OPEN_RE  ^\s*<!\-\-   and COMMENT_CLOSE_RE  \-\->
CommentOpen(line) == StartsWith(TrimStart(line), <<"<", "!", "-", "-">>)
CommentClose(line) == Contains(line, <<"-", "-", ">">>)
\* PHP_OPEN_RE  ^\s*<\?   and PHP_CLOSE_RE  \?>
PhpOpen(line) == StartsWith(TrimStart(line), <<"<", "?">>)
PhpClose(line) == Contains(line, <<"?", ">">>)
\* LESS_BANG_OPEN_RE  ^\s*<![A-Z]   and LESS_BANG_CLOSE_RE  >
LessBangOpen(line) ==
  LET r == TrimStart(line) IN StartsWith(r, <<"<", "!">>) /\ Len(r) >= 3 /\ IsUpper(r[3])
LessBangClose(line) == Contains(line, <<">">>)
\* CDATA_OPEN_RE  ^\s*<!\[CDATA\[   and CDATA_CLOSE_RE  \]\]>
CdataOpen(line) ==
  StartsWith(TrimStart(line), <<"<", "!", "[", "C", "D", "A", "T", "A", "[">>)
CdataClose(line) == Contains(line, <<"]", "]", ">">>)
\* TAG_OPEN_RE  ^\s*</?(?i)(address|...|ul)(\s|/?>|$)
TagOpen(line) ==
  LET r == TrimStart(line)
      s == IF StartsWith(r, <<"<", "/">>) THEN 2 ELSE 1
  IN /\ StartsWith(r, <<"<">>)
     /\ \E n \in TagNames : StartsWithNoCase(From(r, s), n) /\ TagEnd(r, s + Len(n))
\* [a-zA-Z0-9\-]
IsTagChar(c) == IsLower(c) \/ IsUpper(c) \/ IsDigit(c) \/ c = "-"
\* CUSTOM_TAG_OPEN1_RE  ^\s*<[a-zA-Z0-9\-]+[^>]*?/?>\s*$
CustomTagOpen1(line) ==
  LET t == Trim(line) IN
  /\ Len(t) >= 3
  /\ t[1] = "<" /\ IsTagChar(t[2]) /\ t[Len(t)] = ">"
  /\ \A i \in 2..(Len(t) - 1) : t[i] # ">"
\* CUSTOM_TAG_OPEN2_RE  ^\s*</[a-zA-Z0-9\-]+[^>]*?>\s*$
CustomTagOpen2(line) ==
  LET t == Trim(line) IN
  /\ Len(t) >= 4
  /\ t[1] = "<" /\ t[2] = "/" /\ IsTagChar(t[3]) /\ t[Len(t)] = ">"
  /\ \A i \in 3..(Len(t) - 1) : t[i] # ">"
\* TAG_OR_CUSTOM_TAG_CLOSE_RE  ^\s*$
TagClose(line) == IsBlank(line)

----------------------------------------------------------------------------
(* The inline scanner: is_inline_open, is_inline_close, process_inline_char
   and one iteration of the loop of parse_inlines *)

\* the None of Option<&(usize, char)>
NoChar == ""
\* is_inline_open without its test of the left neighbour
is_inline_open_any(ch, left, right) ==
  IF right # NoChar /\ ~is_whitespace(right) /\ right # ch THEN TRUE ELSE FALSE
is_inline_open(ch, left, right) ==
  IF left # NoChar /\ ~is_whitespace(left) THEN FALSE
  ELSE IF right # NoChar /\ ~is_whitespace(right) /\ right # ch THEN TRUE
  ELSE FALSE

is_inline_close(ch, left, right) ==
  IF left # NoChar
  THEN IF is_whitespace(left) \/ ch = left THEN FALSE
       ELSE IF right # NoChar /\ is_whitespace(right) THEN TRUE
       ELSE TRUE
  ELSE FALSE

\* self.close_node(self.find_open_node(self.root))
close_open_node(ns) == close_node(ns, find_open_node(ns, root))

\* the arena after the call, and the bool it returns
process_inline_char(ns, kind, ch, line, prev, next, start, end) ==
  IF is_inline_open(ch, prev, next)
  THEN [ns |-> add_node(add_text_node(ns, Slice(line, start, end)), kind).ns, ret |-> TRUE]
  ELSE IF is_inline_close(ch, prev, next)
  THEN [ns |-> close_open_node(add_text_node(ns, Slice(line, start, end))), ret |-> TRUE]
  ELSE [ns |-> ns, ret |-> FALSE]
\* no character is escapable punctuation
EscapedPunctuation_none == {}
\* the characters a backslash un-escapes to themselves
EscapedPunctuation ==
  {"#", "*", "!", "$", "%", "'", "(", ")", "+", ",", "-", ".", "/", ":", ";", "=", "?",
   "@", "[", "\\", "]", "^", "_", Backtick, "{", "|", "}", "~"}
\* the characters a backslash turns into an entity
EscapedEntity(c) ==
  CASE c = "\"" -> <<"&", "q", "u", "o", "t", ";">>
    [] c = "&" -> <<"&", "a", "m", "p", ";">>
    [] c = ">" -> <<"&", "g", "t", ";">>
    [] c = "<" -> <<"&", "l", "t", ";">>

InlineTag(ch) ==
  CASE ch = "_" -> "em"
    [] ch = "*" -> "strong"
    [] ch = Backtick -> "code"

\* the arm of a marker character: r is what process_inline_char returned
marker_arm(r, idx, start_idx) ==
  [ns |-> r.ns, idx |-> idx + 1, start_idx |-> IF r.ret THEN idx + 1 ELSE start_idx]

\* one iteration of parse_inlines' while loop, the closing idx += 1 included:
\* the arena, idx and start_idx after it
parse_inlines_step(ns, line, idx, start_idx) ==
  LET ch == line[idx + 1]
      pos == idx
      prev == IF idx > 0 THEN line[idx] ELSE NoChar
      next == IF idx + 1 < Len(line) THEN line[idx + 2] ELSE NoChar
      start == start_idx
  IN IF ch \in {"_", "*", Backtick}
     THEN marker_arm(process_inline_char(ns, KInline(InlineTag(ch)), ch, line, prev, next,
                                         start, pos),
                     idx, start_idx)
     ELSE IF ch = "\\" /\ next # NoChar /\ next \in EscapedPunctuation
     THEN [ns |-> add_text_node(ns, Slice(line, start, pos)),
           idx |-> idx + 2, start_idx |-> idx + 1]
     ELSE IF ch = "\\" /\ next # NoChar /\ next \in {"\"", "&", ">", "<"}
     THEN [ns |-> add_text_node(add_text_node(ns, Slice(line, start, pos)),
                                EscapedEntity(next)),
           idx |-> idx + 2, start_idx |-> idx + 2]
     ELSE [ns |-> ns, idx |-> idx + 1, start_idx |-> start_idx]

\* what follows the loop: the pending text is flushed
parse_inlines_end(ns, line, idx, start_idx) ==
  IF idx > start_idx THEN add_text_node(ns, From(line, start_idx)) ELSE ns

----------------------------------------------------------------------------
(* The block matchers.  Each TryX tells whether try_x returns Some; a matcher
   that returns None has changed nothing. *)

DeepestKind(ns) == Nd(ns, find_open_node(ns, root)).kind

\* try_setext_header, were it to take the line whatever node is open
TrySetextHeaderAny(ns, line) == SetextMatch(line)
TrySetextHeader(ns, line) == SetextMatch(line) /\ DeepestKind(ns) = KParagraph
try_setext_header(ns, line) ==
  LET marker == Trim(line)
      node_idx == find_open_node(ns, root)
      lvl == IF marker[1] = "-" THEN 2 ELSE 1
  IN close_node([ns EXCEPT ![node_idx + 1].kind = KHeader(lvl)], node_idx)

TryThematicBreak(line) == ThematicMatch(line)
try_thematic_break(ns) == closed(add_node(ns, KThematicBreak))

TryHeader(line) == HeaderMatch(line)
\* the text try_header hands to parse_inlines
HeaderText(line) ==
  LET c == HeaderCapture(line) IN From(c, LeadRun(c, "#"))

\* try_raw_html's choice of (is_custom, close_re); close = "none" is return None
\* the openers of try_raw_html, were a custom tag to break a paragraph
RawHtmlClassAny(ns, line) ==
  IF ScriptOpen(line) THEN [is_custom |-> FALSE, close |-> "script"]
  ELSE IF CommentOpen(line) THEN [is_custom |-> FALSE, close |-> "comment"]
  ELSE IF PhpOpen(line) THEN [is_custom |-> FALSE, close |-> "php"]
  ELSE IF LessBangOpen(line) THEN [is_custom |-> FALSE, close |-> "less_bang"]
  ELSE IF CdataOpen(line) THEN [is_custom |-> FALSE, close |-> "cdata"]
  ELSE IF TagOpen(line) \/ CustomTagOpen1(line) \/ CustomTagOpen2(line)
  THEN [is_custom |-> TRUE, close |-> "tag"]
  ELSE [is_custom |-> FALSE, close |-> "none"]
RawHtmlClass(ns, line) ==
  IF ScriptOpen(line) THEN [is_custom |-> FALSE, close |-> "script"]
  ELSE IF CommentOpen(line) THEN [is_custom |-> FALSE, close |-> "comment"]
  ELSE IF PhpOpen(line) THEN [is_custom |-> FALSE, close |-> "php"]
  ELSE IF LessBangOpen(line) THEN [is_custom |-> FALSE, close |-> "less_bang"]
  ELSE IF CdataOpen(line) THEN [is_custom |-> FALSE, close |-> "cdata"]
  ELSE IF TagOpen(line) THEN [is_custom |-> TRUE, close |-> "tag"]
  ELSE IF CustomTagOpen1(line) \/ CustomTagOpen2(line)
  THEN IF DeepestKind(ns) = KParagraph
       THEN [is_custom |-> FALSE, close |-> "none"]
       ELSE [is_custom |-> TRUE, close |-> "tag"]
  ELSE [is_custom |-> FALSE, close |-> "none"]

\* close_re.is_match
RawHtmlCloseMatch(close, line) ==
  CASE close = "script" -> ScriptClose(line)
    [] close = "comment" -> CommentClose(line)
    [] close = "php" -> PhpClose(line)
    [] close = "less_bang" -> LessBangClose(line)
    [] close = "cdata" -> CdataClose(line)
    [] close = "tag" -> TagClose(line)

TryRawHtml(ns, line) == RawHtmlClass(ns, line).close # "none"

NewLine == <<"\n">>

\* the while loop, were the line of the closing pattern left out of the node
RECURSIVE raw_html_loop_drop(_, _, _, _, _, _)
raw_html_loop_drop(ns, lines, idx, consumed, is_custom, close) ==
  IF ns = <<>> THEN [ns |-> ns, consumed |-> consumed]
  ELSE IF idx + consumed < Len(lines)
  THEN LET line == lines[idx + consumed + 1]
       IN IF RawHtmlCloseMatch(close, line)
          THEN [ns |-> ns, consumed |-> consumed]
          ELSE raw_html_loop_drop(add_text_node(add_text_node(ns, line), NewLine),
                                  lines, idx, consumed + 1, is_custom, close)
  ELSE [ns |-> ns, consumed |-> consumed]
\* the while loop, were it to count the line of the closing pattern itself
RECURSIVE raw_html_loop_count(_, _, _, _, _, _)
raw_html_loop_count(ns, lines, idx, consumed, is_custom, close) ==
  IF ns = <<>> THEN [ns |-> ns, consumed |-> consumed]
  ELSE IF idx + consumed < Len(lines)
  THEN LET line == lines[idx + consumed + 1]
       IN IF RawHtmlCloseMatch(close, line)
          THEN [ns |-> IF ~is_custom
                       THEN add_text_node(add_text_node(ns, line), NewLine)
                       ELSE ns,
                consumed |-> consumed + 1]
          ELSE raw_html_loop_count(add_text_node(add_text_node(ns, line), NewLine),
                                   lines, idx, consumed + 1, is_custom, close)
  ELSE [ns |-> ns, consumed |-> consumed]
\* try_raw_html's while loop: the arena and consumed after it (the first test
\* only has the arena evaluated before the loop goes on)
RECURSIVE raw_html_loop(_, _, _, _, _, _)
raw_html_loop(ns, lines, idx, consumed, is_custom, close) ==
  IF ns = <<>> THEN [ns |-> ns, consumed |-> consumed]
  ELSE IF idx + consumed < Len(lines)
  THEN LET line == lines[idx + consumed + 1]
           appended == add_text_node(add_text_node(ns, line), NewLine)
       IN IF RawHtmlCloseMatch(close, line)
          THEN [ns |-> IF ~is_custom THEN appended ELSE ns, consumed |-> consumed]
          ELSE raw_html_loop(appended, lines, idx, consumed + 1, is_custom, close)
  ELSE [ns |-> ns, consumed |-> consumed]

\* after the loop: consumed += 1; self.close_node(node)
\* the end of try_raw_html, were it to count the terminator twice
raw_html_end_twice(l, node) == [ns |-> close_node(l.ns, node), consumed |-> l.consumed + 2]
\* the end of try_raw_html, were the node left open
raw_html_end_open(l, node) == [ns |-> l.ns, consumed |-> l.consumed + 1]
\* the end of try_raw_html
raw_html_end(l, node) == [ns |-> close_node(l.ns, node), consumed |-> l.consumed + 1]
\* from let node = self.add_node(Kind::RawHtml) on: a is what add_node returned
raw_html_block(a, lines, idx, c) ==
  raw_html_end(raw_html_loop(a.ns, lines, idx, 0, c.is_custom, c.close), a.val)

try_raw_html(ns, lines, idx) ==
  raw_html_block(add_node(ns, KRawHtml), lines, idx, RawHtmlClass(ns, lines[idx + 1]))

\* try_fenced_code declines a fence whose language token is a closing fence, and
\* a backtick fence with a backtick in its language token or after it
\* the tests of the opening fence, were a backtick let through
FenceAcceptedBacktick(c) ==
  /\ c.matched
  /\ ~FenceEndMatch(c.lang_str)

FenceAccepted(c) ==
  /\ c.matched
  /\ ~FenceEndMatch(c.lang_str)
  /\ ~(c.marker[1] = Backtick
       /\ (Backtick \in Range(c.lang_str) \/ Backtick \in Range(c.rem)))
TryFencedCode(line) == FenceAccepted(FenceStart(line))

\* chars[char_idx] with char_idx past the end of the line
OutOfBounds == -1

\* "Skip indent whitespace if present": for _ in 0..indent, n iterations left
RECURSIVE skip_indent(_, _, _)
skip_indent(line, char_idx, n) ==
  IF n = 0 THEN char_idx
  ELSE IF char_idx >= Len(line) THEN OutOfBounds
  ELSE IF ~is_whitespace(line[char_idx + 1]) THEN char_idx
  ELSE skip_indent(line, char_idx + 1, n - 1)

\* the inner while loop over a body line's characters, and the flush after it
\* (an arena holds its root: the first test only has the arena evaluated before
\* the loop goes on, here and in the loops below)
RECURSIVE fenced_code_chars(_, _, _, _)
fenced_code_chars(ns, line, char_idx, start_idx) ==
  IF ns = <<>> THEN ns
  ELSE IF char_idx < Len(line)
  THEN LET ch == line[char_idx + 1]
           flushed == add_text_node(ns, Slice(line, start_idx, char_idx))
       IN IF ch = ">"
          THEN fenced_code_chars(add_text_node(flushed, <<"&", "g", "t", ";">>),
                                 line, char_idx + 1, char_idx + 1)
          ELSE IF ch = "<"
          THEN fenced_code_chars(add_text_node(flushed, <<"&", "l", "t", ";">>),
                                 line, char_idx + 1, char_idx + 1)
          ELSE fenced_code_chars(ns, line, char_idx + 1, start_idx)
  ELSE IF char_idx > start_idx THEN add_text_node(ns, From(line, start_idx)) ELSE ns

\* the break of the loop, were a closing fence of any length to do
FenceClosesShort(line, marker) ==
  /\ FenceEndMatch(line)
  /\ FenceEndMarker(line)[1] = marker[1]
\* the break of the loop: a closing fence of the opener's character, as long
FenceCloses(line, marker) ==
  /\ FenceEndMatch(line)
  /\ Len(FenceEndMarker(line)) >= Len(marker)
  /\ FenceEndMarker(line)[1] = marker[1]
\* the joining newline, were it added before the first body line as well
fenced_code_join_first(ns, consumed) ==
  IF consumed >= 1 THEN add_text_node(ns, NewLine) ELSE ns
\* if consumed > 1 { self.add_text_node("\n") }
fenced_code_join(ns, consumed) == IF consumed > 1 THEN add_text_node(ns, NewLine) ELSE ns
\* let mut start_idx = char_idx, and the inner loop
fenced_code_line(ns, line, char_idx) == fenced_code_chars(ns, line, char_idx, char_idx)

\* the loop over the body lines: the arena, consumed, and whether it panicked
RECURSIVE fenced_code_loop(_, _, _, _, _, _)
fenced_code_loop(ns, lines, idx, consumed, indent, marker) ==
  IF ns = <<>> THEN [ns |-> ns, consumed |-> consumed, panic |-> TRUE]
  ELSE IF idx + consumed < Len(lines)
  THEN LET line == lines[idx + consumed + 1] IN
       IF FenceCloses(line, marker)
       THEN [ns |-> ns, consumed |-> consumed, panic |-> FALSE]
       ELSE IF skip_indent(line, 0, indent) = OutOfBounds
       THEN [ns |-> fenced_code_join(ns, consumed), consumed |-> consumed, panic |-> TRUE]
       ELSE fenced_code_loop(fenced_code_line(fenced_code_join(ns, consumed), line,
                                              skip_indent(line, 0, indent)),
                             lines, idx, consumed + 1, indent, marker)
  ELSE [ns |-> ns, consumed |-> consumed, panic |-> FALSE]

\* after the loop: consumed += 1; self.close_node(node)
fenced_code_end(l, node) ==
  [ns |-> IF l.panic THEN l.ns ELSE close_node(l.ns, node),
   consumed |-> l.consumed + 1, panic |-> l.panic]
\* from the loop on: a is what add_node returned, c the opening fence's captures
fenced_code_block(a, lines, idx, c) ==
  fenced_code_end(fenced_code_loop(a.ns, lines, idx, 1, c.indent, c.marker), a.val)
fenced_code_open(ns, lines, idx, c) ==
  fenced_code_block(add_node(ns, KCode(Len(c.lang_str) > 0, c.lang_str)), lines, idx, c)

try_fenced_code(ns, lines, idx) == fenced_code_open(ns, lines, idx, FenceStart(lines[idx + 1]))

TryBlockquote(line) == BlockquoteMarker(line) > 0

\* the loop of try_blockquote, were it to keep the marker on each line
RECURSIVE blockquote_sub_lines_keep(_, _, _)
blockquote_sub_lines_keep(lines, idx, sub_lines) ==
  LET consumed == Len(sub_lines) IN
  IF idx + consumed < Len(lines) /\ BlockquoteMarker(lines[idx + consumed + 1]) > 0
  THEN blockquote_sub_lines_keep(lines, idx, Append(sub_lines, lines[idx + consumed + 1]))
  ELSE sub_lines

\* try_blockquote's loop: sub_lines (consumed is its length)
RECURSIVE blockquote_sub_lines(_, _, _)
blockquote_sub_lines(lines, idx, sub_lines) ==
  LET consumed == Len(sub_lines) IN
  IF idx + consumed < Len(lines) /\ BlockquoteMarker(lines[idx + consumed + 1]) > 0
  THEN LET line == lines[idx + consumed + 1]
       IN blockquote_sub_lines(lines, idx, Append(sub_lines, From(line, BlockquoteMarker(line))))
  ELSE sub_lines

\* what try_list computes from the line before it touches the arena
ListItemOf(cap, m) ==
  [marker |-> cap.marker, sp |-> cap.sp,
   start_blank |-> IsBlank(cap.rem),
   indent |-> IF IsBlank(cap.rem) THEN Len(cap.marker) ELSE Len(cap.marker) + Len(cap.sp),
   marker_kind |-> m.kind, marker_close |-> m.close, marker_start |-> m.start]
ListItemOfCaptures(cap) == ListItemOf(cap, parse_marker(Trim(cap.marker)))
ListItem(line) == ListItemOfCaptures(ListMatch(line))

\* try_list returns None for a blank marker under a Paragraph, and for an ordered
\* marker that does not start at 1 under a Paragraph
\* the two declines of try_list, were a blank marker free to interrupt a paragraph
ListAcceptedBlank(it, open_kind) ==
  ~(/\ open_kind = KParagraph
    /\ it.marker_kind \in {"Numeric", "UpperAlpha", "LowerAlpha"}
    /\ it.marker_start # 1)
\* the two declines of try_list, were the second to test numeric markers only
ListAcceptedNumeric(it, open_kind) ==
  /\ ~(it.start_blank /\ open_kind = KParagraph)
  /\ ~(/\ open_kind = KParagraph
       /\ it.marker_kind = "Numeric"
       /\ it.marker_start # 1)
ListAccepted(it, open_kind) ==
  /\ ~(it.start_blank /\ open_kind = KParagraph)
  /\ ~(/\ open_kind = KParagraph
       /\ it.marker_kind \in {"Numeric", "UpperAlpha", "LowerAlpha"}
       /\ it.marker_start # 1)
TryList(ns, line) ==
  ListMatch(line).matched /\ ListAccepted(ListItem(line), DeepestKind(ns))

\* try_list's loop, were a blank line after a marker with no content taken too
RECURSIVE list_sub_lines_blank(_, _, _, _, _)
list_sub_lines_blank(lines, idx, indent, start_blank, sub_lines) ==
  LET consumed == Len(sub_lines) IN
  IF idx + consumed < Len(lines)
  THEN LET line == lines[idx + consumed + 1]
           start_sp == LeadWs(line)
       IN IF start_sp < indent /\ start_sp # Len(line) THEN sub_lines
          ELSE list_sub_lines_blank(lines, idx, indent, start_blank, Append(sub_lines, line))
  ELSE sub_lines
\* try_list's loop, were it to stop at a whitespace-only line short of the indent
RECURSIVE list_sub_lines_short(_, _, _, _, _)
list_sub_lines_short(lines, idx, indent, start_blank, sub_lines) ==
  LET consumed == Len(sub_lines) IN
  IF idx + consumed < Len(lines)
  THEN LET line == lines[idx + consumed + 1]
           start_sp == LeadWs(line)
       IN IF start_sp < indent THEN sub_lines
          ELSE IF IsBlank(line) /\ start_blank /\ consumed = 1 THEN sub_lines
          ELSE list_sub_lines_short(lines, idx, indent, start_blank, Append(sub_lines, line))
  ELSE sub_lines
\* try_list's loop over the following lines: sub_lines (consumed is its length)
RECURSIVE list_sub_lines(_, _, _, _, _)
list_sub_lines(lines, idx, indent, start_blank, sub_lines) ==
  LET consumed == Len(sub_lines) IN
  IF idx + consumed < Len(lines)
  THEN LET line == lines[idx + consumed + 1]
           start_sp == LeadWs(line)
       IN IF start_sp < indent /\ start_sp # Len(line) THEN sub_lines
          ELSE IF IsBlank(line) /\ start_blank /\ consumed = 1 THEN sub_lines
          ELSE list_sub_lines(lines, idx, indent, start_blank, Append(sub_lines, line))
  ELSE sub_lines

\* the arena after try_list has found or made the List and added the ListElement,
\* the ListElement, and the sub_lines it is about to parse
list_entered(li, sub_lines) == [ns |-> li.ns, li |-> li.val, sub_lines |-> sub_lines]
\* parent.map_or_else: the List the item goes to, made by add_node when
\* find_parent_list found none
list_parent(ns, it, parent) ==
  IF parent = NoList
  THEN add_node(ns, KList(ListData(Len(it.marker), Len(it.sp), it.marker_kind,
                                   it.marker_close, it.marker_start)))
  ELSE [ns |-> ns, val |-> parent]
\* let li = self.add_node_to_parent(parent_idx, Kind::ListElement)
list_element(p, sub_lines) == list_entered(add_node_to_parent(p.ns, p.val, KListElement), sub_lines)
list_item(ns, lines, idx, it) ==
  list_element(list_parent(ns, it, find_parent_list(ns, root, Len(it.marker), Len(it.sp),
                                                    it.marker_kind, it.marker_close)),
               list_sub_lines(lines, idx, it.indent, it.start_blank,
                              <<From(lines[idx + 1], it.indent)>>))
try_list(ns, lines, idx) == list_item(ns, lines, idx, ListItem(lines[idx + 1]))

\* the branch parse_lines' if / else-if chain takes on lines[idx]
\* the chain, were the list matcher tried before the thematic break
BranchListFirst(ns, line) ==
  IF IsBlank(line) THEN "blank"
  ELSE IF TrySetextHeader(ns, line) THEN "setext_header"
  ELSE IF TryList(ns, line) THEN "list"
  ELSE IF TryThematicBreak(line) THEN "thematic_break"
  ELSE IF TryHeader(line) THEN "header"
  ELSE IF TryRawHtml(ns, line) THEN "raw_html"
  ELSE IF TryFencedCode(line) THEN "fenced_code"
  ELSE IF TryBlockquote(line) THEN "blockquote"
  ELSE "paragraph"

Branch(ns, line) ==
  IF IsBlank(line) THEN "blank"
  ELSE IF TrySetextHeader(ns, line) THEN "setext_header"
  ELSE IF TryThematicBreak(line) THEN "thematic_break"
  ELSE IF TryHeader(line) THEN "header"
  ELSE IF TryRawHtml(ns, line) THEN "raw_html"
  ELSE IF TryFencedCode(line) THEN "fenced_code"
  ELSE IF TryBlockquote(line) THEN "blockquote"
  ELSE IF TryList(ns, line) THEN "list"
  ELSE "paragraph"

----------------------------------------------------------------------------
(* build_doc, convert_blocks and to_block *)

\* whether to_block(idx) reaches the panic of its Kind::Doc arm
RECURSIVE to_block_panics(_, _)
to_block_panics(ns, idx) ==
  \/ Nd(ns, idx).kind = KDoc
  \/ \E k \in 1..Len(Nd(ns, idx).blocks) : to_block_panics(ns, Nd(ns, idx).blocks[k])

\* a Block: the node's kind with its converted children
RECURSIVE to_block(_, _)
to_block(ns, idx) ==
  [kind |-> Nd(ns, idx).kind,
   blocks |-> [k \in 1..Len(Nd(ns, idx).blocks) |-> to_block(ns, Nd(ns, idx).blocks[k])]]

build_doc_panics(ns) ==
  \E k \in 1..Len(Nd(ns, root).blocks) : to_block_panics(ns, Nd(ns, root).blocks[k])
\* build_doc leaving out the children of the root that are still open
build_doc_closed(ns) ==
  LET IsClosed(k) == ~Nd(ns, k).open
      kept == SelectSeq(Nd(ns, root).blocks, IsClosed)
  IN [k \in 1..Len(kept) |-> to_block(ns, kept[k])]
build_doc(ns) ==
  [k \in 1..Len(Nd(ns, root).blocks) |-> to_block(ns, Nd(ns, root).blocks[k])]

----------------------------------------------------------------------------
(* The parse as a state machine.  A frame is one activation of parse_lines:
   its lines, its cursor idx, and what the matcher that called it does when it
   returns (close node, advance its own cursor by consumed). *)

Frame(lines, via, node, consumed) ==
  [lines |-> lines, idx |-> 0, via |-> via, node |-> node, consumed |-> consumed]

\* no parse_inlines is active
NoScan == [line |-> <<>>, idx |-> 0, start_idx |-> 0, header |-> -1]
\* parse has not returned
NoDoc == <<"none">>
\* Request::try_from has not returned
NoResult == [tag |-> "None"]

Top == stack[Len(stack)]
Line == Top.lines[Top.idx + 1]
\* the loop condition of parse_lines, in the innermost activation
InLoop == pc = "parse_lines" /\ Top.idx < Len(Top.lines)
At(branch) == InLoop /\ Branch(nodes, Line) = branch
\* idx += n in the innermost activation
Advance(n) == [stack EXCEPT ![Len(stack)].idx = @ + n]

\* the documents of a vocabulary: 1..max lines, each a line of the vocabulary
RECURSIVE DocsOf(_, _)
DocsOf(vocabulary, max) ==
  IF max = 0 THEN {<<>>}
  ELSE LET shorter == DocsOf(vocabulary, max - 1)
       IN shorter \cup {Append(d, l) : d \in {e \in shorter : Len(e) = max - 1},
                                       l \in vocabulary}

\* Parser::new(buf) and the entry of parse: parse_lines(buf.lines())
Start(docs) ==
  /\ buf \in docs
  /\ nodes = <<NodeNew(KDoc)>>
  /\ stack = <<Frame(buf, "parse", root, 0)>>
  /\ scan = NoScan
  /\ pc = "parse_lines"
  /\ doc = NoDoc
  /\ html = <<>>
  /\ req = <<>>
  /\ res = NoResult

\* a blank line
BlankLine ==
  /\ At("blank")
  /\ LET node_idx == find_open_node(nodes, root) IN
     nodes' = IF is_closed_by_hardbreak(Nd(nodes, node_idx))
              THEN close_node(nodes, node_idx)
              ELSE nodes
  /\ stack' = Advance(1)
  /\ UNCHANGED <<html, req, res, buf, scan, pc, doc>>

SetextHeader ==
  /\ At("setext_header")
  /\ nodes' = try_setext_header(nodes, Line)
  /\ stack' = Advance(1)
  /\ UNCHANGED <<html, req, res, buf, scan, pc, doc>>

ThematicBreak ==
  /\ At("thematic_break")
  /\ nodes' = try_thematic_break(nodes)
  /\ stack' = Advance(1)
  /\ UNCHANGED <<html, req, res, buf, scan, pc, doc>>

\* try_header up to its call of parse_inlines
\* parse_inlines(line) is entered; header is the Header its caller closes after
\* it, or -1
Scanning(ns, line, header) ==
  /\ nodes' = ns
  /\ scan' = [line |-> line, idx |-> 0, start_idx |-> 0, header |-> header]
  /\ pc' = "parse_inlines"
  /\ UNCHANGED <<html, req, res, buf, stack, doc>>
\* a is what add_node returned
ScanningHeader(a, line) == Scanning(a.ns, line, a.val)

Header ==
  /\ At("header")
  /\ ScanningHeader(add_node(nodes, KHeader(HeaderLevel(Line))), HeaderText(Line))

\* r is what the matcher returned: the loop goes on with idx += consumed
Consumed(r) ==
  /\ nodes' = r.ns
  /\ stack' = Advance(r.consumed)
  /\ UNCHANGED <<html, req, res, buf, scan, pc, doc>>

RawHtml ==
  /\ At("raw_html")
  /\ Consumed(try_raw_html(nodes, Top.lines, Top.idx))

\* r is what try_fenced_code did: it returned Some(consumed), or it panicked
ConsumedOrPanic(r) ==
  /\ nodes' = r.ns
  /\ stack' = IF r.panic THEN stack ELSE Advance(r.consumed)
  /\ pc' = IF r.panic THEN "panic" ELSE pc
  /\ UNCHANGED <<html, req, res, buf, scan, doc>>

FencedCode ==
  /\ At("fenced_code")
  /\ ConsumedOrPanic(try_fenced_code(nodes, Top.lines, Top.idx))

\* try_blockquote up to its call of parse_lines
\* parse_lines(sub_lines) is entered from a matcher that has added node
Entered(ns, sub_lines, via, node) ==
  /\ nodes' = ns
  /\ stack' = Append(stack, Frame(sub_lines, via, node, Len(sub_lines)))
  /\ UNCHANGED <<html, req, res, buf, scan, pc, doc>>
\* a is what add_node returned
EnteredBlockquote(a, sub_lines) == Entered(a.ns, sub_lines, "blockquote", a.val)
\* r is what try_list has done so far
EnteredList(r) == Entered(r.ns, r.sub_lines, "list", r.li)

Blockquote ==
  /\ At("blockquote")
  /\ EnteredBlockquote(add_node(nodes, KBlockquote),
                       blockquote_sub_lines(Top.lines, Top.idx, <<>>))

\* try_list up to its call of parse_lines
List ==
  /\ At("list")
  /\ EnteredList(try_list(nodes, Top.lines, Top.idx))

\* the fallback branch up to its call of parse_inlines
Paragraph ==
  /\ At("paragraph")
  /\ Scanning(IF DeepestKind(nodes) = KParagraph
              THEN add_text_node(nodes, NewLine)
              ELSE add_node(nodes, KParagraph).ns,
              Trim(Line), -1)

\* one iteration of parse_inlines' loop
\* r is what the iteration left
Scanned(r) ==
  /\ nodes' = r.ns
  /\ scan' = [scan EXCEPT !.idx = r.idx, !.start_idx = r.start_idx]
  /\ UNCHANGED <<html, req, res, buf, stack, pc, doc>>

ScanChar ==
  /\ pc = "parse_inlines"
  /\ scan.idx < Len(scan.line)
  /\ Scanned(parse_inlines_step(nodes, scan.line, scan.idx, scan.start_idx))
\* try_header's self.close_node(node_idx) after parse_inlines; the fallback branch
\* (header = -1) closes nothing
close_header(ns, header) == IF header # -1 THEN close_node(ns, header) ELSE ns

\* the end of parse_inlines and the rest of its caller: try_header closes its
\* Header; both callers advance the cursor by one line
ScanEnd ==
  /\ pc = "parse_inlines"
  /\ scan.idx >= Len(scan.line)
  /\ nodes' = close_header(parse_inlines_end(nodes, scan.line, scan.idx, scan.start_idx),
                            scan.header)
  /\ stack' = Advance(1)
  /\ scan' = NoScan
  /\ pc' = "parse_lines"
  /\ UNCHANGED <<html, req, res, buf, doc>>

\* a recursive parse_lines returns to try_blockquote or try_list, which closes
\* its node and returns Some(consumed) to the caller's loop
Return ==
  /\ pc = "parse_lines"
  /\ Top.idx >= Len(Top.lines)
  /\ Len(stack) > 1
  /\ nodes' = close_node(nodes, Top.node)
  /\ stack' = [SubSeq(stack, 1, Len(stack) - 1) EXCEPT ![Len(stack) - 1].idx = @ + Top.consumed]
  /\ UNCHANGED <<html, req, res, buf, scan, pc, doc>>

\* the outermost parse_lines returns to parse, which calls build_doc
BuildDoc ==
  /\ pc = "parse_lines"
  /\ Top.idx >= Len(Top.lines)
  /\ Len(stack) = 1
  /\ pc' = IF build_doc_panics(nodes) THEN "panic" ELSE "done"
  /\ doc' = IF build_doc_panics(nodes) THEN NoDoc ELSE build_doc(nodes)
  /\ UNCHANGED <<html, req, res, buf, nodes, stack, scan>>

Next ==
  \/ BlankLine
  \/ SetextHeader
  \/ ThematicBreak
  \/ Header
  \/ RawHtml
  \/ FencedCode
  \/ Blockquote
  \/ List
  \/ Paragraph
  \/ ScanChar
  \/ ScanEnd
  \/ Return
  \/ BuildDoc

----------------------------------------------------------------------------
(* The inputs *)

\* the most lines a document has
MaxLines == 3

\* Lines that between them take every branch of parse_lines: blank, text, a
\* setext underline or thematic break, an ATX header, a block quote, an
\* indented fence, an allow-listed HTML tag
CommonLines ==
  {<<>>,
   <<"a">>,
   <<"-", "-", "-">>,
   <<"#", " ", "a", "_">>,
   <<">", " ", "a">>,
   <<" ", "~", "~", "~">>,
   <<"<", "p", ">">>}

\* ... with a bullet item, unbalanced inline markers and a processing instruction
Vocabulary ==
  CommonLines \cup
  {<<"-", " ", "a">>,
   <<"_", "a">>,
   <<"a", "_", "b", "_">>,
   <<"<", "?">>,
   <<"?", ">">>}

Init == Start(DocsOf(Vocabulary, MaxLines))

Spec == Init /\ [][Next]_vars

\* ... with ordered items: numeric and alphabetic, starting at 1 and not, with
\* content and with none, and an item inside an item
ListVocabulary ==
  CommonLines \cup
  {<<"1", ".", " ", "a">>,
   <<"2", ".", " ", "a">>,
   <<"b", ".", " ", "a">>,
   <<"1", ".", " ", " ">>,
   <<" ", " ", "a">>,
   <<" ", " ", "1", ".", " ", " ", "a">>}

InitList == Start(DocsOf(ListVocabulary, MaxLines))

SpecList == InitList /\ [][Next]_vars

\* ... with bullet items: two marker kinds, with content and with none, an item
\* inside an item, and an item whose text has three unmatched closing markers
BulletVocabulary ==
  CommonLines \cup
  {<<"-", " ", "a">>,
   <<"*", " ", "a">>,
   <<"-", " ">>,
   <<" ", "a">>,
   <<" ", "-", " ", "a">>,
   <<"-", " ", "a", "_", "b", "_", "c", "_">>}

InitBullet == Start(DocsOf(BulletVocabulary, MaxLines))

SpecBullet == InitBullet /\ [][Next]_vars

\* ... with fences of both characters and two lengths, and body lines with
\* leading and inner whitespace and with '<' and '>'
FenceVocabulary ==
  CommonLines \cup
  {<<"-", " ", "a">>,
   <<"~", "~", "~", "~">>,
   <<Backtick, Backtick, Backtick>>,
   <<" ", " ", "<", "a", ">">>,
   <<"a", " ", " ", "b">>}

InitFence == Start(DocsOf(FenceVocabulary, MaxLines))

SpecFence == InitFence /\ [][Next]_vars

\* ... with the underlines and the breaks that more than one matcher could take
BreakVocabulary ==
  CommonLines \cup
  {<<"-", " ", "a">>,
   <<"=", "=", "=">>,
   <<"-", " ", "-", " ", "-">>,
   <<"*", " ", "*", " ", "*">>}

InitBreak == Start(DocsOf(BreakVocabulary, MaxLines))

SpecBreak == InitBreak /\ [][Next]_vars

\* ... with opening fences that are declined, and a tilde fence with a backtick
DeclineVocabulary ==
  CommonLines \cup
  {<<"-", " ", "a">>,
   <<"~", "~", "~", " ", "~", "~", "~">>,
   <<Backtick, Backtick, Backtick, " ", "a", Backtick>>,
   <<Backtick, Backtick, Backtick, " ", "a", " ", Backtick>>,
   <<"~", "~", "~", " ", "a", Backtick>>}

InitDecline == Start(DocsOf(DeclineVocabulary, MaxLines))

SpecDecline == InitDecline /\ [][Next]_vars

\* ... with quoted lines: bare, nested, indented, and one with closing markers
QuoteVocabulary ==
  CommonLines \cup
  {<<"-", " ", "a">>,
   <<">">>,
   <<">", " ", ">", " ", "a">>,
   <<" ", ">", "a">>,
   <<">", " ", "a", "_", "b", "_">>}

InitQuote == Start(DocsOf(QuoteVocabulary, MaxLines))

SpecQuote == InitQuote /\ [][Next]_vars

\* documents of raw HTML blocks that end at a closing tag, at ?> or at a blank
\* line, and of a custom tag
HtmlVocabulary ==
  CommonLines \cup
  {<<"-", " ", "a">>,
   <<"<", "x", ">">>,
   <<"<", "p", "r", "e", ">">>,
   <<"<", "/", "p", "r", "e", ">">>,
   <<"<", "?">>,
   <<"?", ">">>}

InitHtml == Start(DocsOf(HtmlVocabulary, MaxLines))

SpecHtml == InitHtml /\ [][Next]_vars

\* documents of the five kinds of block that end at a closing pattern
MarkupVocabulary ==
  (CommonLines \ {<<"<", "p", ">">>}) \cup
  {<<"-", " ", "a">>,
   <<"<", "p", "r", "e", ">">>,
   <<"<", "!", "-", "-">>,
   <<"<", "?">>,
   <<"<", "!", "A">>,
   <<"<", "!", "[", "C", "D", "A", "T", "A", "[">>,
   <<"<", "/", "p", "r", "e", ">", "-", "-", ">">>,
   <<"]", "]", ">", "?", ">">>}

InitMarkup == Start(DocsOf(MarkupVocabulary, MaxLines))

SpecMarkup == InitMarkup /\ [][Next]_vars

\* documents of items that do and do not join the Lists that are open: a marker
\* with two spaces and no content, items inside it, one further in, another
\* closing style and another marker kind
NestVocabulary ==
  CommonLines \cup
  {<<"1", ".", " ", " ">>,
   <<" ", " ", "1", ".", " ", "b">>,
   <<" ", " ", "1", ".", " ", " ", "c">>,
   <<" ", " ", " ", "1", ".", " ", " ", "c">>,
   <<"1", ")", " ", " ", "c">>,
   <<"a", ".", " ", " ", "c">>}

InitNest == Start(DocsOf(NestVocabulary, MaxLines))

SpecNest == InitNest /\ [][Next]_vars

\* documents of items and the lines after them: a marker with content and one
\* with none, lines indented by one and by two, and a line of two spaces
ItemVocabulary ==
  CommonLines \cup
  {<<"-", " ", "a">>,
   <<"-">>,
   <<"1", ".", " ", "a">>,
   <<" ", "a">>,
   <<" ", " ", "a">>,
   <<" ", " ">>}

InitItem == Start(DocsOf(ItemVocabulary, MaxLines))

SpecItem == InitItem /\ [][Next]_vars

----------------------------------------------------------------------------
(* tree.rs: Display of a Doc.  A String is the tuple of its characters.  Of
   the blocks, the ones that hold blocks (and ThematicBreak) are rendered. *)

Markers ==
  {"Bullet", "Dash", "Plus", "UpperAlpha", "LowerAlpha", "UpperRoman", "LowerRoman", "Numeric"}

\* "{}" of a u32
RECURSIVE Decimal(_)
Decimal(n) ==
  IF n < 10 THEN <<Digits[n + 1]>>
  ELSE Decimal(n \div 10) \o <<Digits[(n % 10) + 1]>>

\* the (list, attr) pair of the match on marker
list_tag(marker) ==
  CASE marker = "Bullet" -> [list |-> <<"u", "l">>, attr |-> <<>>]
    [] marker = "Dash" -> [list |-> <<"u", "l">>, attr |-> <<" ", "s", "t", "y", "l", "e", "=", "'", "l", "i", "s", "t", "-", "s", "t", "y", "l", "e", "-", "t", "y", "p", "e", ":", "c", "i", "r", "c", "l", "e", "'">>]
    [] marker = "Plus" -> [list |-> <<"u", "l">>, attr |-> <<" ", "s", "t", "y", "l", "e", "=", "'", "l", "i", "s", "t", "-", "s", "t", "y", "l", "e", "-", "t", "y", "p", "e", ":", "s", "q", "u", "a", "r", "e", "'">>]
    [] marker = "UpperAlpha" -> [list |-> <<"o", "l">>, attr |-> <<" ", "t", "y", "p", "e", "=", "'", "A", "'">>]
    [] marker = "LowerAlpha" -> [list |-> <<"o", "l">>, attr |-> <<" ", "t", "y", "p", "e", "=", "'", "a", "'">>]
    [] marker = "UpperRoman" -> [list |-> <<"o", "l">>, attr |-> <<" ", "t", "y", "p", "e", "=", "'", "I", "'">>]
    [] marker = "LowerRoman" -> [list |-> <<"o", "l">>, attr |-> <<" ", "t", "y", "p", "e", "=", "'", "i", "'">>]
    [] marker = "Numeric" -> [list |-> <<"o", "l">>, attr |-> <<>>]

\* the start attribute, were it left out of a list that starts at 0 as well
list_attr_above(attr, start) ==
  IF start > 1 THEN attr \o <<" ", "s", "t", "a", "r", "t", "=", "'">> \o Decimal(start) \o <<"'">> ELSE attr

\* if *start != 1 { attr = format!("{} start='{}'", attr, *start) }
list_attr(attr, start) ==
  IF start # 1 THEN attr \o <<" ", "s", "t", "a", "r", "t", "=", "'">> \o Decimal(start) \o <<"'">> ELSE attr

RECURSIVE write_blocks(_)
RECURSIVE BlockFmt(_)
write_blocks(blocks) ==
  IF blocks = <<>> THEN <<>> ELSE BlockFmt(Head(blocks)) \o write_blocks(Tail(blocks))

\* Display of a Block
BlockFmt(block) ==
  CASE block.kind.tag = "Blockquote" ->
         <<"<", "b", "l", "o", "c", "k", "q", "u", "o", "t", "e", ">">> \o write_blocks(block.blocks) \o <<"<", "/", "b", "l", "o", "c", "k", "q", "u", "o", "t", "e", ">", "\n">>
    [] block.kind.tag = "List" ->
         <<"<">> \o list_tag(block.kind.data.marker).list
           \o list_attr(list_tag(block.kind.data.marker).attr, block.kind.data.start_value)
           \o <<">", "\n">>
           \o write_blocks(block.blocks)
           \o <<"<", "/">> \o list_tag(block.kind.data.marker).list \o <<">", "\n">>
    [] block.kind.tag = "ListElement" ->
         <<"<", "l", "i", ">">> \o write_blocks(block.blocks) \o <<"<", "/", "l", "i", ">", "\n">>
    [] block.kind.tag = "ThematicBreak" -> <<"<", "h", "r", " ", "/", ">", "\n">>

\* Display of a Doc: each block on a line of its own
RECURSIVE DocFmt(_)
DocFmt(blocks) ==
  IF blocks = <<>> THEN <<>> ELSE BlockFmt(Head(blocks)) \o <<"\n">> \o DocFmt(Tail(blocks))

\* doc.to_string()
to_string ==
  /\ pc = "done"
  /\ html' = DocFmt(doc)
  /\ pc' = "written"
  /\ UNCHANGED <<buf, nodes, stack, scan, doc, req, res>>

\* the largest start value of a rendered List
MaxStart == 11

BlockOf(kind, blocks) == [kind |-> kind, blocks |-> blocks]
\* what a List holds
ItemLists ==
  {<<>>,
   <<BlockOf(KListElement, <<>>)>>,
   <<BlockOf(KListElement, <<BlockOf(KThematicBreak, <<>>)>>), BlockOf(KListElement, <<>>)>>,
   <<BlockOf(KListElement, <<BlockOf(KBlockquote, <<>>)>>)>>}
\* the documents of one List
ListDocs ==
  {<<BlockOf(KList(ListData(0, 2, marker, "None", start)), blocks)>> :
     marker \in Markers, start \in 0..MaxStart, blocks \in ItemLists}

\* a parsed document, before it is rendered
InitTree ==
  /\ buf = <<>>
  /\ nodes = <<NodeNew(KDoc)>>
  /\ stack = <<>>
  /\ scan = NoScan
  /\ pc = "done"
  /\ doc \in ListDocs
  /\ html = <<>>
  /\ req = <<>>
  /\ res = NoResult

SpecTree == InitTree /\ [][to_string]_vars

----------------------------------------------------------------------------
(* The http crate: Request::try_from.  The request is the tuple of the lines
   req.lines() yields; a decoded URI is the tuple of its bytes. *)

\* the characters of codes 32 to 126, in order
Ascii ==
  <<" ", "!", "\"", "#", "$", "%", "&", "'", "(", ")", "*", "+", ",", "-", ".", "/",
    "0", "1", "2", "3", "4", "5", "6", "7", "8", "9", ":", ";", "<", "=", ">", "?",
    "@", "A", "B", "C", "D", "E", "F", "G", "H", "I", "J", "K", "L", "M", "N", "O",
    "P", "Q", "R", "S", "T", "U", "V", "W", "X", "Y", "Z", "[", "\\", "]", "^", "_",
    Backtick, "a", "b", "c", "d", "e", "f", "g", "h", "i", "j", "k", "l", "m", "n", "o",
    "p", "q", "r", "s", "t", "u", "v", "w", "x", "y", "z", "{", "|", "}", "~">>
\* the byte of an ASCII character
Code(c) == IndexOf(Ascii, c) + 31

from_hex(c) ==
  CASE IsDigit(c) -> [some |-> TRUE, val |-> Code(c) - Code("0")]
    [] c \in {"a", "b", "c", "d", "e", "f"} -> [some |-> TRUE, val |-> Code(c) - Code("a") + 10]
    [] c \in {"A", "B", "C", "D", "E", "F"} -> [some |-> TRUE, val |-> Code(c) - Code("A") + 10]
    [] OTHER -> [some |-> FALSE, val |-> 0]

\* the bytes decode pushes
RECURSIVE decode_bytes(_)
decode_bytes(s) ==
  IF s = <<>> THEN <<>>
  ELSE IF s[1] # "%" THEN <<Code(s[1])>> \o decode_bytes(Tail(s))
  ELSE IF Len(s) = 1 THEN <<Code("%")>>
  ELSE IF ~from_hex(s[2]).some THEN <<Code("%"), Code(s[2])>> \o decode_bytes(From(s, 2))
  ELSE IF Len(s) = 2 THEN <<Code("%"), Code(s[2])>>
  ELSE IF ~from_hex(s[3]).some
    THEN <<Code("%"), Code(s[2]), Code(s[3])>> \o decode_bytes(From(s, 3))
  ELSE <<from_hex(s[2]).val * 16 + from_hex(s[3]).val>> \o decode_bytes(From(s, 3))

\* String::from_utf8(out).is_ok()
IsCont(b) == b >= 128 /\ b <= 191
RECURSIVE from_utf8_ok(_)
from_utf8_ok(bs) ==
  IF bs = <<>> THEN TRUE
  ELSE IF bs[1] < 128 THEN from_utf8_ok(Tail(bs))
  ELSE IF bs[1] >= 194 /\ bs[1] <= 223
    THEN Len(bs) >= 2 /\ IsCont(bs[2]) /\ from_utf8_ok(From(bs, 2))
  ELSE IF bs[1] >= 224 /\ bs[1] <= 239
    THEN /\ Len(bs) >= 3 /\ IsCont(bs[2]) /\ IsCont(bs[3])
         /\ (bs[1] = 224 => bs[2] >= 160)
         /\ (bs[1] = 237 => bs[2] <= 159)
         /\ from_utf8_ok(From(bs, 3))
  ELSE IF bs[1] >= 240 /\ bs[1] <= 244
    THEN /\ Len(bs) >= 4 /\ IsCont(bs[2]) /\ IsCont(bs[3]) /\ IsCont(bs[4])
         /\ (bs[1] = 240 => bs[2] >= 144)
         /\ (bs[1] = 244 => bs[2] <= 143)
         /\ from_utf8_ok(From(bs, 4))
  ELSE FALSE

decode(s) == [ok |-> from_utf8_ok(decode_bytes(s)), uri |-> decode_bytes(s)]

\* Method::try_from
method_try_from(w) ==
  CASE w = <<"G", "E", "T">> -> [ok |-> TRUE, val |-> "Get"]
    [] w = <<"H", "E", "A", "D">> -> [ok |-> TRUE, val |-> "Head"]
    [] w = <<"P", "O", "S", "T">> -> [ok |-> TRUE, val |-> "Post"]
    [] w = <<"P", "U", "T">> -> [ok |-> TRUE, val |-> "Put"]
    [] w = <<"D", "E", "L", "E", "T", "E">> -> [ok |-> TRUE, val |-> "Delete"]
    [] w = <<"C", "O", "N", "N", "E", "C", "T">> -> [ok |-> TRUE, val |-> "Connect"]
    [] w = <<"O", "P", "T", "I", "O", "N", "S">> -> [ok |-> TRUE, val |-> "Options"]
    [] w = <<"T", "R", "A", "C", "E">> -> [ok |-> TRUE, val |-> "Trace"]
    [] w = <<"P", "A", "T", "C", "H">> -> [ok |-> TRUE, val |-> "Patch"]
    [] OTHER -> [ok |-> FALSE, val |-> "None"]

\* Version::try_from
version_try_from(w) ==
  CASE w = <<"H", "T", "T", "P", "/", "1", ".", "0">> -> [ok |-> TRUE, val |-> "V1_0"]
    [] w = <<"H", "T", "T", "P", "/", "1", ".", "1">> -> [ok |-> TRUE, val |-> "V1_1"]
    [] w = <<"H", "T", "T", "P", "/", "2", ".", "0">> -> [ok |-> TRUE, val |-> "V2_0"]
    [] OTHER -> [ok |-> FALSE, val |-> "None"]

\* str::split_whitespace
RECURSIVE WordEnd(_, _)
WordEnd(s, i) == IF i < Len(s) /\ ~is_whitespace(s[i + 1]) THEN WordEnd(s, i + 1) ELSE i
RECURSIVE split_whitespace(_)
split_whitespace(s) ==
  IF IsBlank(s) THEN <<>>
  ELSE <<Slice(s, LeadWs(s), WordEnd(s, LeadWs(s)))>>
       \o split_whitespace(From(s, WordEnd(s, LeadWs(s))))

\* the words of the request line, once there are three of them
request_line_of(words) ==
  [ok |-> /\ decode(words[2]).ok
          /\ method_try_from(words[1]).ok
          /\ version_try_from(words[3]).ok,
   method |-> method_try_from(words[1]).val,
   uri |-> decode(words[2]).uri,
   version |-> version_try_from(words[3]).val]

\* o is the lines of the request: lines.next() is its first, if it has one
parse_request_line(o) ==
  IF o = <<>> \/ Len(split_whitespace(o[1])) < 3
    THEN [ok |-> FALSE, method |-> "None", uri |-> <<>>, version |-> "None"]
  ELSE request_line_of(split_whitespace(o[1]))

\* the parts of s.split(':')
RECURSIVE PartEnd(_, _)
PartEnd(s, i) == IF i < Len(s) /\ s[i + 1] # ":" THEN PartEnd(s, i + 1) ELSE i
parse_header_line(s) ==
  [ok |-> PartEnd(s, 0) > 0,
   k |-> Slice(s, 0, PartEnd(s, 0)),
   v |-> IF PartEnd(s, 0) < Len(s)
           THEN Trim(Slice(s, PartEnd(s, 0) + 1, PartEnd(s, PartEnd(s, 0) + 1)))
           ELSE <<>>]

CONTENT_LENGTH == <<"c", "o", "n", "t", "e", "n", "t", "-", "l", "e", "n", "g", "t", "h">>

\* Headers: the map of the lowercased keys
headers_new == <<>>
headers_insert(data, a, b) ==
  [x \in DOMAIN data \cup {LowerStr(a)} |-> IF x = LowerStr(a) THEN b ELSE data[x]]
headers_get(data, a) ==
  IF LowerStr(a) \in DOMAIN data THEN [some |-> TRUE, v |-> data[LowerStr(a)]]
  ELSE [some |-> FALSE, v |-> <<>>]

\* the loop over the header lines
RECURSIVE read_headers(_, _)
read_headers(lines, headers) ==
  IF lines = <<>>
    THEN [err |-> FALSE, found_break |-> FALSE, headers |-> headers, lines |-> <<>>]
  ELSE IF Head(lines) = <<>>
    THEN [err |-> FALSE, found_break |-> TRUE, headers |-> headers, lines |-> Tail(lines)]
  ELSE IF ~parse_header_line(Head(lines)).ok
    THEN [err |-> TRUE, found_break |-> FALSE, headers |-> headers, lines |-> Tail(lines)]
  ELSE read_headers(Tail(lines),
                    headers_insert(headers, parse_header_line(Head(lines)).k,
                                   parse_header_line(Head(lines)).v))

\* the loop over the lines of the body
RECURSIVE read_body(_, _)
read_body(lines, body) ==
  IF lines = <<>> THEN body
  ELSE read_body(Tail(lines),
                 (IF body # <<>> THEN body \o <<"\n">> ELSE body) \o Head(lines))

\* str::parse::<usize>: digits after an optional '+'; no value of the model
\* has the twenty digits an overflow takes
usize_digits(v) == IF v # <<>> /\ v[1] = "+" THEN Tail(v) ELSE v
usize_parse(v) ==
  [ok |-> usize_digits(v) # <<>>
          /\ \A i \in 1..Len(usize_digits(v)) : IsDigit(usize_digits(v)[i]),
   val |-> IF usize_digits(v) # <<>>
              /\ \A i \in 1..Len(usize_digits(v)) : IsDigit(usize_digits(v)[i])
             THEN DecimalValue(usize_digits(v)) ELSE 0]

Err(error) == [tag |-> "Err", error |-> error]
Ok(method, version, uri, headers, body) ==
  [tag |-> "Ok", method |-> method, version |-> version, uri |-> uri,
   headers |-> headers, body |-> body]

\* the test of the declared length, were one byte too few let through
is_partial_lenient(len, body) == len > Len(body) + 1

\* if len > body.len()
is_partial(len, body) == len > Len(body)

\* try_from once the body is read
check_length(rl, headers, body) ==
  IF headers_get(headers, CONTENT_LENGTH).some
    THEN IF ~usize_parse(headers_get(headers, CONTENT_LENGTH).v).ok THEN Err("Parse")
         ELSE IF is_partial(usize_parse(headers_get(headers, CONTENT_LENGTH).v).val, body)
           THEN Err("PartialRequest")
         ELSE Ok(rl.method, rl.version, rl.uri, headers, body)
  ELSE IF body # <<>> THEN Err("Parse")
  ELSE Ok(rl.method, rl.version, rl.uri, headers, body)

\* try_from once the header lines are read
after_headers(rl, hs) ==
  IF hs.err THEN Err("Parse")
  ELSE IF ~hs.found_break THEN Err("PartialRequest")
  ELSE check_length(rl, hs.headers, read_body(hs.lines, <<>>))

try_from(lines) ==
  IF ~parse_request_line(lines).ok THEN Err("Parse")
  ELSE after_headers(parse_request_line(lines), read_headers(Tail(lines), headers_new))

\* Request::try_from(req)
TryFrom ==
  /\ res = NoResult
  /\ res' = try_from(req)
  /\ UNCHANGED <<buf, nodes, stack, scan, pc, doc, html, req>>

\* the most lines that follow the request line
MaxRequestLines == 4

RequestLines ==
  {<<"G", "E", "T", " ", "/", "a", "%", "2", "0", "b", " ", "H", "T", "T", "P", "/", "1", ".", "1">>,
   <<"G", "E", "T", " ", "/">>}
FollowingLines ==
  {<<>>,
   <<"a", "b">>,
   <<"C", "o", "n", "t", "e", "n", "t", "-", "L", "e", "n", "g", "t", "h", ":", " ", "0">>,
   <<"c", "o", "n", "t", "e", "n", "t", "-", "l", "e", "n", "g", "t", "h", ":", "4">>,
   <<":", "a">>,
   <<"C", "o", "n", "t", "e", "n", "t", "-", "L", "e", "n", "g", "t", "h", ":", " ", "x">>}
Requests ==
  {<<>>} \cup {<<first>> \o rest : first \in RequestLines,
                                   rest \in DocsOf(FollowingLines, MaxRequestLines)}

\* a request, before it is parsed
InitHttp ==
  /\ buf = <<>>
  /\ nodes = <<NodeNew(KDoc)>>
  /\ stack = <<>>
  /\ scan = NoScan
  /\ pc = "idle"
  /\ doc = NoDoc
  /\ html = <<>>
  /\ req \in Requests
  /\ res = NoResult

SpecHttp == InitHttp /\ [][TryFrom]_vars

----------------------------------------------------------------------------
(* The arena on its own: add_node on an arena whose deepest open node is of a
   chosen kind. *)

\* a value of every Kind
SomeKinds ==
  {KDoc, KBlockquote, KListElement, KParagraph, KThematicBreak, KRawHtml,
   KHeader(1), KHeader(2), KCode(FALSE, <<>>),
   KList(ListData(0, 2, "Dash", "None", 1)), KText(<<"a">>), KInline(InlineTag("_"))}

\* the most nodes of such an arena
MaxNodes == 3

\* self.add_node(kind)
AddNode ==
  /\ pc = "arena"
  /\ Len(nodes) < MaxNodes
  /\ \E kind \in SomeKinds : nodes' = add_node(nodes, kind).ns
  /\ UNCHANGED <<buf, stack, scan, pc, doc, html, req, res>>

\* the root alone, or the root and an open node of some kind
InitArena ==
  /\ buf = <<>>
  /\ nodes \in {<<NodeNew(KDoc)>>} \cup {add_node(<<NodeNew(KDoc)>>, kind).ns : kind \in SomeKinds}
  /\ stack = <<>>
  /\ scan = NoScan
  /\ pc = "arena"
  /\ doc = NoDoc
  /\ html = <<>>
  /\ req = <<>>
  /\ res = NoResult

SpecArena == InitArena /\ [][AddNode]_vars

----------------------------------------------------------------------------
(* parse_marker on the marker tokens the pattern of try_list lets through:
   \*|\+|\-|(?:[0-9]{1,9}|[a-z]|[A-Z])(?:\.|\)), with at most MaxDigits digits *)

MaxDigits == 2

DigitRuns == UNION {[1..n -> Range(Digits)] : n \in 1..MaxDigits}
MarkerTokens ==
  {<<"*">>, <<"+">>, <<"-">>} \cup
  {w \o <<c>> : w \in DigitRuns \cup {<<l>> : l \in Range(LowerLetters) \cup Range(UpperLetters)},
                c \in {".", ")"}}

ParseMarker ==
  /\ res = NoResult
  /\ res' = parse_marker(req)
  /\ UNCHANGED <<buf, nodes, stack, scan, pc, doc, html, req>>

\* a marker token, before it is parsed
InitMarker ==
  /\ buf = <<>>
  /\ nodes = <<NodeNew(KDoc)>>
  /\ stack = <<>>
  /\ scan = NoScan
  /\ pc = "idle"
  /\ doc = NoDoc
  /\ html = <<>>
  /\ req \in MarkerTokens
  /\ res = NoResult

SpecMarker == InitMarker /\ [][ParseMarker]_vars

----------------------------------------------------------------------------
(* Properties of the parse.  A step property is an action formula: it relates
   a state to its successor. *)

NodeIds(ns) == 0..(Len(ns) - 1)
LastOf(seq) == seq[Len(seq)]
\* the activation that called the innermost one
Caller == stack[Len(stack) - 1]
\* the innermost activation has run through its lines
AtEnd == pc = "parse_lines" /\ Top.idx >= Len(Top.lines)
Min(S) == CHOOSE x \in S : \A y \in S : x <= y

\* the deepest open node, read off the open chain: the chain's node whose last
\* child is missing or closed
DeepestOpen(ns) ==
  CHOOSE i \in OnChain(ns) :
    Len(Nd(ns, i).blocks) = 0 \/ ~Nd(ns, LastOf(Nd(ns, i).blocks)).open

\* C1: no input makes the parse panic: no state of any parse is the panic state
C1_NeverPanics == pc # "panic"

\* The lines a block that runs to a terminator uses, from lines[idx] on: through
\* the first line that can end it, or through the last line when none can
UsedThrough(lines, idx, ends) ==
  IF ends = {} THEN Len(lines) - idx ELSE Min(ends) - idx + 1
RawHtmlEnds(ns, lines, idx) ==
  {j \in idx..(Len(lines) - 1) :
     RawHtmlCloseMatch(RawHtmlClass(ns, lines[idx + 1]).close, lines[j + 1])}
FenceEnds(lines, idx) ==
  {j \in (idx + 1)..(Len(lines) - 1) :
     FenceCloses(lines[j + 1], FenceStart(lines[idx + 1]).marker)}
\* the cursor stands on the first line after the n the matcher used, or past
\* the end when it used them all
CursorAfter(n) ==
  /\ Len(stack') = Len(stack)
  /\ IF Top.idx + n < Len(Top.lines)
     THEN Top'.idx = Top.idx + n
     ELSE Top'.idx >= Len(Top.lines)
IsSuffix(s, t) == Len(s) <= Len(t) /\ s = From(t, Len(t) - Len(s))
\* sub_lines are lines idx, idx + 1, ... of lines, each less a prefix
Covers(sub_lines, lines, idx) ==
  /\ Len(sub_lines) >= 1
  /\ idx + Len(sub_lines) <= Len(lines)
  /\ \A k \in 1..Len(sub_lines) : IsSuffix(sub_lines[k], lines[idx + k])
\* a matcher hands the lines it uses to a nested parse_lines and keeps its place
HandsOver ==
  /\ Len(stack') = Len(stack) + 1
  /\ stack'[Len(stack)] = Top
  /\ Top'.idx = 0
  /\ Covers(Top'.lines, Top.lines, Top.idx)
\* the nested parse_lines returns: the caller's cursor passes the lines handed over
TakesBack ==
  /\ Len(stack') = Len(stack) - 1
  /\ Top'.idx = Caller.idx + Len(Top.lines)
  /\ Top'.lines = Caller.lines

C2_Step ==
  /\ At("blank") \/ At("setext_header") \/ At("thematic_break") => CursorAfter(1)
  /\ At("header") \/ At("paragraph") => stack' = stack
  /\ pc = "parse_inlines" /\ pc' = "parse_inlines" => stack' = stack
  /\ pc = "parse_inlines" /\ pc' = "parse_lines" => CursorAfter(1)
  /\ At("raw_html") =>
       CursorAfter(UsedThrough(Top.lines, Top.idx, RawHtmlEnds(nodes, Top.lines, Top.idx)))
  /\ At("fenced_code") /\ pc' # "panic" =>
       CursorAfter(UsedThrough(Top.lines, Top.idx, FenceEnds(Top.lines, Top.idx)))
  /\ At("blockquote") \/ At("list") => HandsOver
  /\ AtEnd /\ Len(stack) > 1 => TakesBack

\* C2: at each nesting level the cursor moves from the line dispatched to the
\* first line the accepting matcher did not use (past the end when it used the
\* rest): after a block quote or list item, past exactly the lines handed to the
\* nested parse; after fenced code or raw HTML, past the terminator line; after
\* any other branch, by one line.  So no line is skipped or dispatched twice.
C2_EveryLineOnce == [][C2_Step]_vars

\* a raw HTML block ended by its terminator on the second line, and the cursor
\* on the third line
C2_Witness ==
  /\ Len(buf) = 3 /\ buf[1] = <<"<", "?">> /\ buf[2] = <<"?", ">">>
  /\ pc = "parse_lines" /\ Len(stack) = 1 /\ Top.idx = 2
  /\ Len(nodes) > 1 /\ Nd(nodes, 1).kind = KRawHtml

RECURSIVE TotalLen(_)
TotalLen(lines) ==
  IF lines = <<>> THEN 0 ELSE Len(Head(lines)) + TotalLen(Tail(lines))

C3_Step ==
  /\ Len(stack') = Len(stack) /\ stack' # stack => Top'.idx >= Top.idx + 1
  /\ At("blank") => Top'.idx = Top.idx + 1
  /\ pc = "parse_inlines" /\ scan.header = -1 /\ pc' = "parse_lines" =>
       Top'.idx = Top.idx + 1
  /\ pc = "parse_inlines" /\ pc' = "parse_inlines" => scan'.idx > scan.idx
  /\ Len(stack') > Len(stack) =>
       /\ SubSeq(stack', 1, Len(stack)) = stack
       /\ TotalLen(Top'.lines) < TotalLen(Top.lines)
  /\ Len(stack') < Len(stack) =>
       /\ Len(stack') = Len(stack) - 1
       /\ Top'.idx >= Caller.idx + 1

\* C3: parse_lines terminates: every iteration of the dispatch loop moves the
\* cursor on by at least one line (a matcher's count, or a nested parse's on
\* its return, is at least 1; the blank-line branch and the paragraph fallback
\* move it by exactly 1; the scanner in between moves on in its line), and a
\* matcher calls parse_lines only on sub-lines whose total length is strictly
\* smaller than its caller's lines
C3_Terminates == [][C3_Step]_vars

\* a block quote's nested parse_lines, run through its one line and about to return
C3_Witness ==
  /\ Len(stack) = 2 /\ Top.via = "blockquote"
  /\ AtEnd /\ Top.idx = 1
  /\ TotalLen(Top.lines) < TotalLen(Caller.lines)

\* C4: the root Document node's open flag is never cleared
C4_RootNeverClosed == Nd(nodes, root).open

C5_Step ==
  /\ \A i \in NodeIds(nodes) : ~Nd(nodes, i).open => ~Nd(nodes', i).open
  /\ \A i \in NodeIds(nodes) : ~Nd(nodes, i).open => close_node(nodes, i) = nodes
  /\ AtEnd /\ Len(stack) > 1 /\ ~Nd(nodes, Top.node).open => nodes' = nodes

\* C5: closing is one-way: a node that is closed stays closed in every later
\* state, and close_node on a closed node leaves the arena as it was (so does
\* the return of a nested parse whose node an inline marker closed already)
C5_ClosingOneWay == [][C5_Step]_vars

\* try_header is about to close a Header that a closing inline marker closed
\* while its text was scanned
C5_Witness ==
  /\ pc = "parse_inlines" /\ scan.idx >= Len(scan.line)
  /\ scan.header # -1 /\ ~Nd(nodes, scan.header).open

\* C6: whenever a child is appended to a node, by add_node, by add_text_node or
\* by the list matcher to the List find_parent_list returned, that node is on
\* the open chain at that moment
C6_AppendsOnChain == \A i \in NodeIds(nodes) \ {root} : Nd(nodes, i).attached

\* a second item attached to the List find_parent_list found, with its text
C6_Witness ==
  \E i \in NodeIds(nodes) :
    /\ Nd(nodes, i).kind.tag = "List"
    /\ Len(Nd(nodes, i).blocks) = 2
    /\ Nd(nodes, Len(nodes) - 1).kind.tag = "Text"

\* the child lists of nodes from, from + 1, ... end to end
RECURSIVE ChildLists(_, _)
ChildLists(ns, from) ==
  IF from >= Len(ns) THEN <<>> ELSE Nd(ns, from).blocks \o ChildLists(ns, from + 1)

\* C7: the arena is a tree rooted at node 0: every other node stands in exactly
\* one child list, once, and its parent's index is smaller than its own; node 0
\* stands in none.  So build_doc never reaches to_block on the Document node.
C7_Tree ==
  /\ Len(ChildLists(nodes, root)) = Len(nodes) - 1
  /\ \A i \in NodeIds(nodes) \ {root} :
       \E k \in 1..(Len(nodes) - 1) : ChildLists(nodes, root)[k] = i
  /\ \A p \in NodeIds(nodes) :
       \A k \in 1..Len(Nd(nodes, p).blocks) : Nd(nodes, p).blocks[k] > p
  /\ ~build_doc_panics(nodes)

\* a document built from an arena three levels deep
C7_Witness ==
  /\ pc = "done" /\ Len(doc) = Len(Nd(nodes, root).blocks)
  /\ \E i, j \in NodeIds(nodes) \ {root} :
       \E k \in 1..Len(Nd(nodes, i).blocks) :
         Nd(nodes, i).blocks[k] = j /\ Len(Nd(nodes, j).blocks) > 0

\* no block matcher's pattern matches the line and the line is not blank
PlainLine(line) ==
  /\ ~IsBlank(line)
  /\ ~SetextMatch(line) /\ ~ThematicMatch(line) /\ ~HeaderMatch(line)
  /\ ~ScriptOpen(line) /\ ~CommentOpen(line) /\ ~PhpOpen(line)
  /\ ~LessBangOpen(line) /\ ~CdataOpen(line) /\ ~TagOpen(line)
  /\ ~CustomTagOpen1(line) /\ ~CustomTagOpen2(line)
  /\ ~FenceStart(line).matched
  /\ BlockquoteMarker(line) = 0
  /\ ~ListMatch(line).matched

\* C8: consecutive non-blank lines that no block matcher accepts accumulate in
\* one Paragraph: a document of such lines only has, when parsed, one Paragraph
\* node
C8_OneParagraph ==
  pc = "done" /\ Len(buf) >= 1 /\ (\A k \in 1..Len(buf) : PlainLine(buf[k]))
    => Cardinality({i \in NodeIds(nodes) : Nd(nodes, i).kind = KParagraph}) = 1

C9_Step ==
  At("blank") =>
    /\ nodes' = IF Nd(nodes, DeepestOpen(nodes)).kind = KParagraph
                THEN [nodes EXCEPT ![DeepestOpen(nodes) + 1].open = FALSE]
                ELSE nodes
    /\ Len(nodes') = Len(nodes)
    /\ Len(stack') = Len(stack)
    /\ Top'.idx = Top.idx + 1

\* C9: a blank line closes the deepest open node if and only if that node is a
\* Paragraph, adds no node, and moves the cursor on by exactly one line
C9_BlankLine == [][C9_Step]_vars

\* a Paragraph closed by the blank line after it
C9_Witness ==
  /\ Len(buf) >= 2 /\ buf[1] = <<"a">> /\ IsBlank(buf[2])
  /\ pc = "parse_lines" /\ Len(stack) = 1 /\ Top.idx = 2
  /\ Len(nodes) > 1 /\ Nd(nodes, 1).kind = KParagraph /\ ~Nd(nodes, 1).open

\* the line is a list item whose marker is a number or a letter
OrderedItemLine(line) ==
  /\ ListMatch(line).matched
  /\ LET c == Trim(ListMatch(line).marker)[1] IN IsDigit(c) \/ IsLower(c) \/ IsUpper(c)
\* the next line meets an open Paragraph and is an ordered list item line
OrderedAfterParagraph ==
  InLoop /\ Nd(nodes, DeepestOpen(nodes)).kind = KParagraph /\ OrderedItemLine(Line)
\* the list matcher declines and the fallback appends the line to Paragraph d
AppendedTo(d) ==
  /\ stack' = stack
  /\ pc' = "parse_inlines" /\ scan'.line = Trim(Line) /\ scan'.header = -1
  /\ Len(nodes') = Len(nodes) + 1
  /\ Nd(nodes', Len(nodes)).kind = KText(NewLine)
  /\ Nd(nodes', d).open
  /\ Nd(nodes', d).blocks = Append(Nd(nodes, d).blocks, Len(nodes))
\* the list matcher accepts: an open ListElement, and a nested parse of the item
ItemOpened ==
  /\ Len(stack') = Len(stack) + 1
  /\ Top'.via = "list" /\ Top'.node = Len(nodes') - 1
  /\ Nd(nodes', Top'.node).kind = KListElement
  /\ Nd(nodes', Top'.node).open

C10_AsStatedStep ==
  OrderedAfterParagraph =>
    IF ListItem(Line).marker_start # 1
    THEN AppendedTo(DeepestOpen(nodes))
    ELSE ItemOpened /\ ~Nd(nodes', DeepestOpen(nodes)).open

\* C10 as stated: under an open Paragraph, an ordered item line whose start
\* value is not 1 is appended to the paragraph as text, and one whose start
\* value is 1 closes the Paragraph and opens a list item
C10_AsStated == [][C10_AsStatedStep]_vars

C10_Step ==
  OrderedAfterParagraph =>
    IF ListItem(Line).marker_start # 1 \/ IsBlank(ListMatch(Line).rem)
    THEN AppendedTo(DeepestOpen(nodes))
    ELSE /\ ItemOpened
         /\ DeepestOpen(nodes) \notin OnChain(nodes')
         /\ \/ ~Nd(nodes', DeepestOpen(nodes)).open
            \/ Len(nodes') = Len(nodes) + 1

\* C10: under an open Paragraph, an ordered item line whose start value is not
\* 1, or whose marker is followed by nothing but whitespace, is appended to the
\* paragraph as text; one whose start value is 1 and whose marker is followed
\* by content opens a list item and takes the Paragraph off the open chain:
\* closed when a new List is created for the item, left open when the item
\* joins an enclosing open List
C10_OrderedInterrupts == [][C10_Step]_vars

\* "1. a" after "a": the Paragraph closed, the item's nested parse entered
C10_Witness ==
  /\ Len(buf) >= 2 /\ buf[1] = <<"a">> /\ buf[2] = <<"1", ".", " ", "a">>
  /\ Len(stack) = 2 /\ Top.via = "list" /\ Top.idx = 0 /\ Caller.idx = 1
  /\ Nd(nodes, 1).kind = KParagraph /\ ~Nd(nodes, 1).open
  /\ Nd(nodes, Top.node).kind = KListElement

\* the line is a list item whose marker is '*', '+' or '-'
BulletItemLine(line) ==
  /\ ListMatch(line).matched
  /\ Trim(ListMatch(line).marker)[1] \in {"*", "+", "-"}
\* the next line meets an open Paragraph and is a bullet item line that none of
\* the matchers before the list matcher accepts
BulletAfterParagraph ==
  /\ InLoop
  /\ Nd(nodes, DeepestOpen(nodes)).kind = KParagraph
  /\ BulletItemLine(Line)
  /\ Branch(nodes, Line) \in {"list", "paragraph"}

C11_AsStatedStep ==
  BulletAfterParagraph => ItemOpened /\ ~Nd(nodes', DeepestOpen(nodes)).open

\* C11 as stated: under an open Paragraph, a bullet item line that no earlier
\* matcher accepts always closes the Paragraph and opens a list item, also when
\* nothing follows its marker
C11_AsStated == [][C11_AsStatedStep]_vars

C11_Step ==
  BulletAfterParagraph =>
    IF IsBlank(ListMatch(Line).rem)
    THEN AppendedTo(DeepestOpen(nodes))
    ELSE /\ ItemOpened
         /\ DeepestOpen(nodes) \notin OnChain(nodes')
         /\ \/ ~Nd(nodes', DeepestOpen(nodes)).open
            \/ Len(nodes') = Len(nodes) + 1

\* C11: under an open Paragraph, a bullet item line that no earlier matcher
\* accepts and whose marker is followed by content opens a list item and takes
\* the Paragraph off the open chain: closed when a new List is created for the
\* item, left open when the item joins an enclosing open List; when nothing but
\* whitespace follows the marker the list matcher declines and the line is
\* appended to the paragraph as text
C11_BulletInterrupts == [][C11_Step]_vars

\* "- a" after "a": the Paragraph closed, the item's nested parse entered
C11_Witness ==
  /\ Len(buf) >= 2 /\ buf[1] = <<"a">> /\ buf[2] = <<"-", " ", "a">>
  /\ Len(stack) = 2 /\ Top.via = "list" /\ Top.idx = 0 /\ Caller.idx = 1
  /\ Nd(nodes, 1).kind = KParagraph /\ ~Nd(nodes, 1).open
  /\ Nd(nodes, Top.node).kind = KListElement

\* both lines are item lines, neither a thematic break, with as much before the
\* marker and as much after it
ItemPair(first, second) ==
  /\ ListMatch(first).matched /\ ListMatch(second).matched
  /\ ~ThematicMatch(first) /\ ~ThematicMatch(second)
  /\ Len(ListMatch(first).marker) = Len(ListMatch(second).marker)
  /\ Len(ListMatch(first).sp) = Len(ListMatch(second).sp)
SameMarker(first, second) ==
  /\ ListItem(first).marker_kind = ListItem(second).marker_kind
  /\ ListItem(first).marker_close = ListItem(second).marker_close
\* the first two lines of an activation are such a pair, and the second is next:
\* the first was accepted, as the node an activation starts in is no Paragraph
SecondOfPair ==
  InLoop /\ Top.idx = 1 /\ ItemPair(Top.lines[1], Top.lines[2])
\* the List made for the first line: the last child of the node the activation
\* started in
FirstList == LastOf(Nd(nodes, Top.node).blocks)

C12_Step ==
  SecondOfPair =>
    /\ Nd(nodes, FirstList).kind.tag = "List"
    /\ IF SameMarker(Top.lines[1], Top.lines[2])
       THEN /\ Len(nodes') = Len(nodes) + 1
            /\ Nd(nodes', Len(nodes)).kind = KListElement
            /\ Nd(nodes', FirstList).blocks = <<Nd(nodes, FirstList).blocks[1], Len(nodes)>>
            /\ Nd(nodes', Nd(nodes, FirstList).blocks[1]).kind = KListElement
       ELSE /\ Len(nodes') = Len(nodes) + 2
            /\ ~Nd(nodes', FirstList).open
            /\ Nd(nodes', Len(nodes)).kind.tag = "List"
            /\ Nd(nodes', Top.node).blocks = Append(Nd(nodes, Top.node).blocks, Len(nodes))
            /\ Nd(nodes', Len(nodes)).blocks = <<Len(nodes) + 1>>
            /\ Nd(nodes', Len(nodes) + 1).kind = KListElement

\* C12: two consecutive item lines with the same marker kind, closing style,
\* indentation and spacing become two ListElement children of one List node;
\* if the second line's marker kind differs the first List is closed and a new
\* sibling List is created for the second item
C12_SameListOrSibling == [][C12_Step]_vars

\* the body of the fenced code block opened by lines[idx], when ends are the
\* indices of the lines that can close it
FenceBody(lines, idx, ends) ==
  SubSeq(lines, idx + 2, IF ends = {} THEN Len(lines) ELSE Min(ends))
\* line less its leading whitespace, indent characters of it at most
Stripped(line, indent) ==
  From(line, IF LeadWs(line) < indent THEN LeadWs(line) ELSE indent)
\* s with each '<' and '>' replaced by its entity
RECURSIVE Escaped(_)
Escaped(s) ==
  IF s = <<>> THEN <<>>
  ELSE (CASE Head(s) = "<" -> <<"&", "l", "t", ";">>
          [] Head(s) = ">" -> <<"&", "g", "t", ";">>
          [] OTHER -> <<Head(s)>>) \o Escaped(Tail(s))
\* the body lines, stripped and escaped, with a newline between two of them
RECURSIVE Joined(_, _)
Joined(body, indent) ==
  IF body = <<>> THEN <<>>
  ELSE Escaped(Stripped(Head(body), indent))
       \o (IF Len(body) > 1 THEN NewLine \o Joined(Tail(body), indent) ELSE <<>>)
\* the texts of the Text nodes children, end to end
RECURSIVE TextOf(_, _)
TextOf(ns, children) ==
  IF children = <<>> THEN <<>>
  ELSE Nd(ns, Head(children)).kind.txt \o TextOf(ns, Tail(children))
NewLinesIn(ns, children) ==
  Cardinality({k \in 1..Len(children) : Nd(ns, children[k]).kind = KText(NewLine)})
\* node code of ns is a Code node of Text children that spell the body
CodeHolds(ns, code, body, indent) ==
  /\ Nd(ns, code).kind.tag = "Code"
  /\ \A k \in 1..Len(Nd(ns, code).blocks) :
       Nd(ns, Nd(ns, code).blocks[k]).kind.tag = "Text"
  /\ TextOf(ns, Nd(ns, code).blocks) = Joined(body, indent)
  /\ NewLinesIn(ns, Nd(ns, code).blocks) = IF body = <<>> THEN 0 ELSE Len(body) - 1
\* try_fenced_code accepts the next line and returns
FenceTaken == At("fenced_code") /\ pc' # "panic"

C13_Step ==
  FenceTaken =>
    CodeHolds(nodes', Len(nodes),
              FenceBody(Top.lines, Top.idx, FenceEnds(Top.lines, Top.idx)),
              FenceStart(Line).indent)

\* C13: the Text children of a fenced code block's Code node, end to end, are
\* the body lines (those between the opening fence and the closing fence or
\* the end of input), each less at most indent leading whitespace characters
\* and with '<' and '>' as entities, with exactly one newline Text node between
\* two consecutive body lines and none before the first; nothing else of the
\* body is altered, dropped or reordered
C13_CodeBody == [][C13_Step]_vars

\* a fence indented by one, its body the lines "  <a>" and "a  b"
C13_Witness ==
  /\ buf = << <<" ", "~", "~", "~">>, <<" ", " ", "<", "a", ">">>, <<"a", " ", " ", "b">> >>
  /\ pc = "parse_lines" /\ Top.idx >= 3
  /\ Nd(nodes, 1).kind.tag = "Code" /\ ~Nd(nodes, 1).open
  /\ TextOf(nodes, Nd(nodes, 1).blocks)
       = <<" ", "&", "l", "t", ";", "a", "&", "g", "t", ";", "\n", "a", " ", " ", "b">>

\* the List the rendered document holds
TheList == doc[1].kind.data
\* s up to its first '>', that included
RECURSIVE OpenTag(_)
OpenTag(s) ==
  IF s = <<>> THEN <<>>
  ELSE IF Head(s) = ">" THEN <<">">> ELSE <<Head(s)>> \o OpenTag(Tail(s))
EndsWith(s, pat) == Len(s) >= Len(pat) /\ From(s, Len(s) - Len(pat)) = pat
ElementOf(marker) ==
  IF marker \in {"Bullet", "Dash", "Plus"} THEN <<"u", "l">> ELSE <<"o", "l">>
AttributeOf(marker) ==
  CASE marker = "Dash" -> <<" ", "s", "t", "y", "l", "e", "=", "'", "l", "i", "s", "t", "-", "s", "t", "y", "l", "e", "-", "t", "y", "p", "e", ":", "c", "i", "r", "c", "l", "e", "'">>
    [] marker = "Plus" -> <<" ", "s", "t", "y", "l", "e", "=", "'", "l", "i", "s", "t", "-", "s", "t", "y", "l", "e", "-", "t", "y", "p", "e", ":", "s", "q", "u", "a", "r", "e", "'">>
    [] marker = "UpperAlpha" -> <<" ", "t", "y", "p", "e", "=", "'", "A", "'">>
    [] marker = "LowerAlpha" -> <<" ", "t", "y", "p", "e", "=", "'", "a", "'">>
    [] marker = "UpperRoman" -> <<" ", "t", "y", "p", "e", "=", "'", "I", "'">>
    [] marker = "LowerRoman" -> <<" ", "t", "y", "p", "e", "=", "'", "i", "'">>
    [] OTHER -> <<>>
StartOf(start) == <<" ", "s", "t", "a", "r", "t", "=", "'">> \o Decimal(start) \o <<"'">>

\* C14: a List renders as <ul> for Bullet, Dash and Plus and as <ol> for the
\* ordered kinds, with the attribute of its marker (none for Bullet and
\* Numeric, the circle style for Dash, the square style for Plus, type='A',
\* 'a', 'I', 'i' for UpperAlpha, LowerAlpha, UpperRoman, LowerRoman), and a
\* start='N' attribute follows if and only if the start value is not 1
C14_ListRendering ==
  pc = "written" /\ Len(doc) = 1 /\ doc[1].kind.tag = "List" =>
    /\ OpenTag(html) =
         <<"<">> \o ElementOf(TheList.marker) \o AttributeOf(TheList.marker)
           \o (IF TheList.start_value # 1 THEN StartOf(TheList.start_value) ELSE <<>>)
           \o <<">">>
    /\ Contains(OpenTag(html), <<" ", "s", "t", "a", "r", "t", "=", "'">>) <=> TheList.start_value # 1
    /\ EndsWith(html, <<"<", "/">> \o ElementOf(TheList.marker) \o <<">", "\n", "\n">>)

\* a Dash list that starts at 0, rendered
C14_Witness ==
  /\ pc = "written" /\ Len(doc) = 1 /\ doc[1].kind.tag = "List"
  /\ TheList.marker = "Dash" /\ TheList.start_value = 0
  /\ doc[1].blocks = <<>>
  /\ html = <<"<", "u", "l", " ", "s", "t", "y", "l", "e", "=", "'", "l", "i", "s", "t", "-", "s", "t", "y", "l", "e", "-", "t", "y", "p", "e", ":", "c", "i", "r", "c", "l", "e", "'", " ", "s", "t", "a", "r", "t", "=", "'", "0", "'", ">", "\n", "<", "/", "u", "l", ">", "\n", "\n">>

\* the lines of req after the request line
Following == Tail(req)
\* the place in Following of the empty line that ends the headers: 0 if none
HeaderBreak ==
  IF \E i \in 1..Len(Following) : Following[i] = <<>>
    THEN Min({i \in 1..Len(Following) : Following[i] = <<>>})
  ELSE 0
HeaderLines ==
  IF HeaderBreak = 0 THEN Following ELSE SubSeq(Following, 1, HeaderBreak - 1)
BodyLines ==
  IF HeaderBreak = 0 THEN <<>> ELSE SubSeq(Following, HeaderBreak + 1, Len(Following))
\* the request line and every header line are ones the parser takes
WellFormedHead ==
  /\ parse_request_line(req).ok
  /\ \A i \in 1..Len(HeaderLines) : parse_header_line(HeaderLines[i]).ok
\* the header lines that are Content-Length headers
LengthLines ==
  {i \in 1..Len(HeaderLines) :
     LowerStr(parse_header_line(HeaderLines[i]).k) = CONTENT_LENGTH}
\* header line i declares more bytes than the body holds
DeclaresMore(i) ==
  /\ usize_parse(parse_header_line(HeaderLines[i]).v).ok
  /\ usize_parse(parse_header_line(HeaderLines[i]).v).val > Len(read_body(BodyLines, <<>>))
Max(S) == CHOOSE x \in S : \A y \in S : y <= x

C15_WitnessHeaders ==
  /\ req = <<<<"G", "E", "T", " ", "/", "a", "%", "2", "0", "b", " ", "H", "T", "T", "P", "/", "1", ".", "1">>, <<"C", "o", "n", "t", "e", "n", "t", "-", "L", "e", "n", "g", "t", "h", ":", " ", "0">>>>
  /\ res = Err("PartialRequest")

\* the lines joined with newline
RECURSIVE JoinedLines(_)
JoinedLines(lines) ==
  IF lines = <<>> THEN <<>>
  ELSE Head(lines) \o (IF Len(lines) > 1 THEN <<"\n">> \o JoinedLines(Tail(lines)) ELSE <<>>)

\* C16: the body of a parsed request is the lines that follow the empty line
\* that ends the headers, joined with newline, whatever empty lines the body
\* starts with or holds
C16_BodyPreserved ==
  res # NoResult /\ res.tag = "Ok" => res.body = JoinedLines(BodyLines)

\* the policy as it is stated, of an open node of kind self and a candidate
PolicyAsStated(self, candidate) ==
  CASE self.tag \in {"Doc", "Blockquote", "ListElement", "RawHtml"} -> FALSE
    [] self.tag \in {"Paragraph", "Header"} -> candidate.tag # "Paragraph"
    [] OTHER -> TRUE
\* add_node has added a node: the last of the arena
Added == Len(nodes') = Len(nodes) + 1 /\ pc = "arena"
Candidate == Nd(nodes', Len(nodes)).kind

C17_AsStatedStep ==
  Added =>
    (Nd(nodes', DeepestOpen(nodes)).open
       <=> ~PolicyAsStated(Nd(nodes, DeepestOpen(nodes)).kind, Candidate))

\* C17 as it is stated: a Document, Blockquote, ListElement or RawHtml node is
\* closed by no candidate, a Paragraph or Header node by every candidate kind
\* but Paragraph, a node of any other kind by every candidate kind
C17_AsStated == [][C17_AsStatedStep]_vars

C17_Step ==
  Added =>
    (Nd(nodes', DeepestOpen(nodes)).open
       <=> \/ Candidate.tag \in {"Text", "Inline"}
           \/ ~PolicyAsStated(Nd(nodes, DeepestOpen(nodes)).kind, Candidate))

\* C17: a candidate of kind Text or Inline closes no node; of the other
\* candidate kinds, none closes a Document, Blockquote, ListElement or RawHtml
\* node, every one but Paragraph closes a Paragraph or Header node, and every
\* one closes a node of any other kind
C17_ClosingPolicy == [][C17_Step]_vars

\* a Text node added under an open Header, and a Blockquote that closed a List
C17_Witness ==
  /\ pc = "arena" /\ Len(nodes) = 3
  /\ \/ /\ Nd(nodes, 1).kind.tag = "Header" /\ Nd(nodes, 1).open
        /\ Nd(nodes, 2).kind.tag = "Text" /\ Nd(nodes, 1).blocks = <<2>>
     \/ /\ Nd(nodes, 1).kind.tag = "List" /\ ~Nd(nodes, 1).open
        /\ Nd(nodes, 2).kind.tag = "Blockquote" /\ Nd(nodes, root).blocks = <<1, 2>>

\* the loop is at a line the setext underline takes
Underlines == InLoop /\ ~IsBlank(Line) /\ SetextMatch(Line) /\ DeepestKind(nodes) = KParagraph
\* the loop is at a line the thematic break takes, the underline having declined
Breaks == InLoop /\ ~IsBlank(Line) /\ ThematicMatch(Line) /\ ~Underlines
\* the nodes the step adds
NewNodes == Len(nodes) .. (Len(nodes') - 1)
\* the open Paragraph has become a Header of level lvl, and closed
TurnedHeader(d, lvl) ==
  /\ Len(nodes') = Len(nodes)
  /\ Nd(nodes', d).kind = KHeader(lvl)
  /\ ~Nd(nodes', d).open
\* one node is added, a ThematicBreak, and no activation for an item entered
BreakAdded ==
  /\ Len(nodes') = Len(nodes) + 1
  /\ Nd(nodes', Len(nodes)).kind = KThematicBreak
  /\ ~Nd(nodes', Len(nodes)).open
  /\ stack' = Advance(1) /\ pc' = pc

C18_Step ==
  /\ Underlines => /\ TurnedHeader(DeepestOpen(nodes), IF Trim(Line)[1] = "-" THEN 2 ELSE 1)
                   /\ stack' = Advance(1) /\ pc' = pc
  /\ Breaks => BreakAdded
  /\ InLoop /\ ~IsBlank(Line) /\ ~Underlines /\ ~Breaks /\ HeaderMatch(Line) =>
       /\ Len(nodes') = Len(nodes) + 1
       /\ Nd(nodes', Len(nodes)).kind.tag = "Header"
       /\ stack' = stack
  /\ InLoop /\ ~IsBlank(Line) =>
       \A n \in NewNodes :
         /\ Nd(nodes', n).kind.tag = "ThematicBreak" => Breaks
         /\ Nd(nodes', n).kind.tag \in {"List", "ListElement"} => ~Underlines /\ ~Breaks

\* C18: a line that more than one matcher could take goes to the first of them
\* in the order setext underline, thematic break, ATX header, ..., list,
\* paragraph, and the later ones do not act on it: '---' when the deepest open
\* node is a Paragraph makes that Paragraph a Header(2) and adds no
\* ThematicBreak; '---' otherwise adds a ThematicBreak; '- - -' and '* * *'
\* add a ThematicBreak and no List or ListElement
C18_FirstMatcherTakes == [][C18_Step]_vars

\* "a" and "---" made a Header(2) of one Text, then "- - -" made a ThematicBreak
C18_Witness ==
  /\ buf = << <<"a">>, <<"-", "-", "-">>, <<"-", " ", "-", " ", "-">> >>
  /\ pc = "parse_lines" /\ Top.idx = 3
  /\ Len(nodes) = 4
  /\ Nd(nodes, 1).kind = KHeader(2) /\ Nd(nodes, 3).kind = KThematicBreak
  /\ \A n \in 0..3 : Nd(nodes, n).kind.tag \notin {"List", "ListElement"}

\* the loop is at an underline
AtUnderline == InLoop /\ ~IsBlank(Line) /\ SetextMatch(Line)

C19_Step ==
  AtUnderline =>
    IF Nd(nodes, DeepestOpen(nodes)).kind = KParagraph
      THEN nodes' = [nodes EXCEPT
                       ![DeepestOpen(nodes) + 1].kind =
                          KHeader(IF Trim(Line)[1] = "-" THEN 2 ELSE 1),
                       ![DeepestOpen(nodes) + 1].open = FALSE]
      ELSE /\ Nd(nodes', DeepestOpen(nodes)).kind = Nd(nodes, DeepestOpen(nodes)).kind
           /\ IF Trim(Line)[1] = "-"
                THEN nodes' = try_thematic_break(nodes)
                ELSE /\ nodes' = add_node(nodes, KParagraph).ns
                     /\ pc' = "parse_inlines" /\ scan'.line = Trim(Line)

\* C19: a line of three or more '-' or three or more '=' is a setext underline
\* only when the deepest open node is a Paragraph: that node becomes Header(2)
\* for '-' and Header(1) for '=', it is closed, its children stay and no node
\* is added; otherwise the setext matcher leaves the arena alone and a later
\* matcher takes the line: the thematic break for '-', the paragraph for '='
C19_Setext == [][C19_Step]_vars

\* "a" then "===" made a Header(1); a second "===" opened a Paragraph
C19_Witness ==
  /\ buf = << <<"a">>, <<"=", "=", "=">>, <<"=", "=", "=">> >>
  /\ pc = "parse_inlines" /\ Top.idx = 2
  /\ Nd(nodes, 1).kind = KHeader(1) /\ ~Nd(nodes, 1).open
  /\ Nd(nodes, 1).blocks = <<2>>
  /\ Len(nodes) = 4 /\ Nd(nodes, 3).kind = KParagraph

\* line is whitespace around a run of n or more ch and nothing else
ClosingFence(line, ch, n) ==
  /\ Len(Trim(line)) >= n
  /\ \A i \in 1..Len(Trim(line)) : Trim(line)[i] = ch
\* the later lines that close the fence opened by lines[idx]
Closers(lines, idx) ==
  {j \in (idx + 1)..(Len(lines) - 1) :
     ClosingFence(lines[j + 1], FenceStart(lines[idx + 1]).marker[1],
                  Len(FenceStart(lines[idx + 1]).marker))}

C20_Step ==
  FenceTaken =>
    /\ ~Nd(nodes', Len(nodes)).open
    /\ Len(stack') = Len(stack)
    /\ IF Closers(Top.lines, Top.idx) # {}
         THEN /\ Top'.idx = Min(Closers(Top.lines, Top.idx)) + 1
              /\ CodeHolds(nodes', Len(nodes),
                           SubSeq(Top.lines, Top.idx + 2, Min(Closers(Top.lines, Top.idx))),
                           FenceStart(Line).indent)
         ELSE /\ Top'.idx >= Len(Top.lines)
              /\ CodeHolds(nodes', Len(nodes),
                           SubSeq(Top.lines, Top.idx + 2, Len(Top.lines)),
                           FenceStart(Line).indent)

\* C20: a fenced code block ends at the first later line that is only
\* whitespace and a fence run of the opener's character, as long as the
\* opener's or longer: that line is consumed and is not of the body; a fence
\* line of the other character or a shorter one is body text; with no closing
\* line the block runs through the last line of the input and is closed there
C20_FenceCloses == [][C20_Step]_vars

\* a fence of four '~' holds a fence of three and one of the other character,
\* or runs to the end of the input
C20_Witness ==
  /\ pc = "parse_lines" /\ Len(stack) = 1 /\ Top.idx >= 3
  /\ buf[1] = <<"~", "~", "~", "~">>
  /\ buf[2] \in {<<" ", "~", "~", "~">>, <<Backtick, Backtick, Backtick>>}
  /\ Len(buf) = 3 /\ buf[3] \in {<<"~", "~", "~", "~">>, <<"a">>}
  /\ Nd(nodes, 1).kind.tag = "Code" /\ ~Nd(nodes, 1).open
  /\ Len(Nd(nodes, 1).blocks) >= 1

\* token is a run of three or more of one fence character
FenceToken(token) ==
  \E ch \in {Backtick, "~"} : ClosingFence(token, ch, 3) /\ Trim(token) = token
\* line opens with a fence that try_fenced_code is to decline
DeclinedFence(line) ==
  /\ FenceStart(line).matched
  /\ \/ FenceToken(FenceStart(line).lang_str)
     \/ /\ FenceStart(line).marker[1] = Backtick
        /\ \/ Backtick \in Range(FenceStart(line).lang_str)
           \/ Backtick \in Range(FenceStart(line).rem)
\* the paragraph fallback has taken the line
FellBack ==
  /\ stack' = stack
  /\ pc' = "parse_inlines" /\ scan'.line = Trim(Line) /\ scan'.header = -1
  /\ nodes' = IF Nd(nodes, DeepestOpen(nodes)).kind = KParagraph
              THEN add_text_node(nodes, NewLine)
              ELSE add_node(nodes, KParagraph).ns

C21_Step ==
  InLoop /\ ~IsBlank(Line) /\ DeclinedFence(Line) =>
    /\ \A n \in NewNodes : Nd(nodes', n).kind.tag # "Code"
    /\ FellBack

\* C21: try_fenced_code declines, adding and closing no node, when the token
\* after the opening fence is itself a closing fence, and when the fence is of
\* backticks and the language token or the text after it holds a backtick; the
\* line then goes to the later matchers, of which the paragraph fallback is
\* the one that takes a line that opens with a fence
C21_FenceDeclines == [][C21_Step]_vars

\* a backtick fence with a backtick in its language token became paragraph
\* text, and a tilde fence with one opened a Code node
C21_Witness ==
  /\ buf = << <<Backtick, Backtick, Backtick, " ", "a", Backtick>>,
              <<"~", "~", "~", " ", "a", Backtick>> >>
  /\ pc = "done"
  /\ Nd(nodes, 1).kind = KParagraph
  /\ \E n \in 2..(Len(nodes) - 1) : Nd(nodes, n).kind.tag = "Code"

\* line begins with optional whitespace and '>'
QuoteLine(line) == LeadWs(line) < Len(line) /\ line[LeadWs(line) + 1] = ">"
\* r less one leading whitespace character, if it has one
LessOneWs(r) == IF r # <<>> /\ is_whitespace(r[1]) THEN Tail(r) ELSE r
\* a quoted line less its prefix
Unquoted(line) == LessOneWs(From(line, LeadWs(line) + 1))
\* the length of the run of quoted lines from lines[idx] on
RECURSIVE QuoteRun(_, _)
QuoteRun(lines, idx) ==
  IF idx < Len(lines) /\ QuoteLine(lines[idx + 1]) THEN 1 + QuoteRun(lines, idx + 1) ELSE 0
\* the node that holds n
ParentOf(ns, n) ==
  CHOOSE q \in NodeIds(ns) : \E k \in 1..Len(Nd(ns, q).blocks) : Nd(ns, q).blocks[k] = n
\* n is b or stands below it
RECURSIVE Inside(_, _, _)
Inside(ns, n, b) == n = b \/ (n > b /\ Inside(ns, ParentOf(ns, n), b))
\* an activation of parse_lines is parsing the content of Blockquote b
Quoting(b) == \E f \in 1..Len(stack) : stack[f].via = "blockquote" /\ stack[f].node = b

\* try_blockquote takes the run of quoted lines at the cursor
C22_Takes ==
  InLoop /\ QuoteLine(Line) =>
    /\ Len(nodes') = Len(nodes) + 1
    /\ Nd(nodes', Len(nodes)).kind = KBlockquote
    /\ Len(stack') = Len(stack) + 1
    /\ stack'[Len(stack)] = Top
    /\ Top'.via = "blockquote" /\ Top'.node = Len(nodes) /\ Top'.idx = 0
    /\ Top'.lines = [k \in 1..QuoteRun(Top.lines, Top.idx) |-> Unquoted(Top.lines[Top.idx + k])]
\* ... and closes the Blockquote and passes the run when the content is parsed
C22_Returns ==
  AtEnd /\ Len(stack) > 1 /\ Top.via = "blockquote" =>
    /\ ~Nd(nodes', Top.node).open
    /\ Len(stack') = Len(stack) - 1
    /\ Top'.idx = Caller.idx + QuoteRun(Caller.lines, Caller.idx)
\* ... and the content of the run, and nothing else, is placed in the Blockquote
C22_Content ==
  \A n \in NewNodes :
    \A b \in NodeIds(nodes) :
      Nd(nodes, b).kind = KBlockquote =>
        (Inside(nodes', n, b) <=> Quoting(b))

C22_Step == C22_Takes /\ C22_Returns /\ C22_Content

\* C22: try_blockquote consumes the longest run of lines from the cursor on
\* that begin with optional whitespace, '>' and at most one whitespace
\* character, parses them less that prefix as the content of one new
\* Blockquote node, and closes the node before it returns: what the run
\* holds is placed in the Blockquote, and no later line is
C22_Blockquote == [][C22_Step]_vars

----------------------------------------------------------------------------
(* try_raw_html: what the RawHtml node holds and where the cursor is left *)

\* the kind of block the line at the cursor opens
HtmlKind == RawHtmlClass(nodes, Line).close
ClosedByPattern == {"script", "comment", "php", "less_bang", "cdata"}
\* lines from, ..., to - 1 of lines, each with its line break
RECURSIVE RawText(_, _, _)
RawText(lines, from, to) ==
  IF from >= to THEN <<>>
  ELSE lines[from + 1] \o NewLine \o RawText(lines, from + 1, to)
\* a line from the cursor on matches the closing pattern; the first is the terminator
Terminated == RawHtmlEnds(nodes, Top.lines, Top.idx) # {}
Terminator == Min(RawHtmlEnds(nodes, Top.lines, Top.idx))
\* the node try_raw_html adds and the text of its children after the step
HtmlNode == Len(nodes)
ChildText(ns, n) == TextOf(ns, Nd(ns, n).blocks)
HtmlText == ChildText(nodes', HtmlNode)
HtmlAdded ==
  /\ Len(nodes') > Len(nodes)
  /\ Nd(nodes', HtmlNode).kind = KRawHtml
  /\ \A n \in NewNodes \ {HtmlNode} : Nd(nodes', n).kind.tag = "Text"
TerminatorKept == HtmlAdded /\ HtmlText = RawText(Top.lines, Top.idx, Terminator + 1)
TerminatorLeft == HtmlAdded /\ HtmlText = RawText(Top.lines, Top.idx, Terminator)

C23_AsStatedStep ==
  At("raw_html") /\ Terminated =>
    /\ HtmlKind = "script" => TerminatorKept
    /\ HtmlKind \in ClosedByPattern \ {"script"} => TerminatorLeft
\* C23 as the specification states it: the line of the closing pattern is kept
\* for script, pre and style and left out for the other four kinds
C23_AsStated == [][C23_AsStatedStep]_vars

C23_Step ==
  At("raw_html") /\ Terminated =>
    /\ HtmlKind \in ClosedByPattern => TerminatorKept
    /\ HtmlKind = "tag" => TerminatorLeft
\* C23: the line on which the closing pattern is found is appended to the
\* RawHtml node for script/pre/style blocks and also for comment, processing
\* instruction, declaration and CDATA blocks; only the blank line that ends a
\* tag block is not appended
C23_TerminatorKept == [][C23_Step]_vars
\* a comment of two lines is parsed and its node holds both
C23_Witness ==
  /\ pc = "done"
  /\ buf = <<<<"<", "!", "-", "-">>, <<"<", "/", "p", "r", "e", ">", "-", "-", ">">>, <<"a">>>>
  /\ Nd(nodes, 1).kind = KRawHtml
  /\ TextOf(nodes, Nd(nodes, 1).blocks) = RawText(buf, 0, 2)

C24_Step ==
  At("raw_html") /\ Terminated =>
    /\ stack' = Advance(Terminator - Top.idx + 1)
    /\ pc' = pc
    /\ HtmlKind = "tag" => TerminatorLeft
    /\ HtmlAdded /\ ~Nd(nodes', HtmlNode).open
\* C24: try_raw_html consumes the lines from the opening line through the
\* terminator, so that the cursor is left on the line after the terminator;
\* the blank line that ends a tag block is consumed and not appended; the
\* RawHtml node is closed when the matcher returns
C24_Consumed == [][C24_Step]_vars
\* a tag block ended by a blank line, and the line after it a paragraph
C24_Witness ==
  /\ pc = "done"
  /\ buf = <<<<"<", "p", ">">>, <<>>, <<"a">>>>
  /\ Nd(nodes, 1).kind = KRawHtml /\ ~Nd(nodes, 1).open
  /\ ChildText(nodes, 1) = RawText(buf, 0, 1)
  /\ \E n \in NodeIds(nodes) : Nd(nodes, n).kind = KParagraph

\* a block of kinds 2 to 5 at the cursor, with a line after its terminator
LineAfterTerminator ==
  /\ At("raw_html") /\ Terminated
  /\ HtmlKind \in {"comment", "php", "less_bang", "cdata"}
  /\ Terminator + 1 < Len(Top.lines)

C25_AsStatedStep == LineAfterTerminator => stack' = Advance(Terminator - Top.idx + 2)
\* C25 as the specification states it: after a comment, processing instruction,
\* declaration or CDATA block the cursor skips the line after the terminator
C25_AsStated == [][C25_AsStatedStep]_vars

C25_Step ==
  LineAfterTerminator =>
    /\ pc' = "parse_lines"
    /\ stack' = Advance(Terminator - Top.idx + 1)
    /\ Top'.lines[Top'.idx + 1] = Top.lines[Terminator + 2]
\* C25: after a comment, processing instruction, declaration or CDATA block
\* the line immediately after the terminator is not swallowed: the loop of
\* parse_lines stands on it and dispatches it next
C25_NextLine == [][C25_Step]_vars
\* the line after the end of a comment has become a paragraph
C25_Witness ==
  /\ pc = "done"
  /\ buf = <<<<"<", "!", "-", "-">>, <<"<", "/", "p", "r", "e", ">", "-", "-", ">">>, <<"a">>>>
  /\ \E n \in NodeIds(nodes) : Nd(nodes, n).kind = KParagraph /\ ChildText(nodes, n) = <<"a">>

\* the line opens one of the kinds 1 to 6 of raw HTML block
OpensKnown(line) ==
  \/ ScriptOpen(line) \/ CommentOpen(line) \/ PhpOpen(line)
  \/ LessBangOpen(line) \/ CdataOpen(line) \/ TagOpen(line)
\* the line is a custom tag and nothing else
CustomOnly(line) == (CustomTagOpen1(line) \/ CustomTagOpen2(line)) /\ ~OpensKnown(line)
UnderParagraph == Nd(nodes, DeepestOpen(nodes)).kind = KParagraph

C26_Step ==
  /\ InLoop /\ CustomOnly(Line) /\ UnderParagraph =>
       /\ \A n \in NewNodes : Nd(nodes', n).kind # KRawHtml
       /\ FellBack
  /\ InLoop /\ CustomOnly(Line) /\ ~UnderParagraph => HtmlAdded
  /\ InLoop /\ OpensKnown(Line) =>
       /\ HtmlAdded
       /\ UnderParagraph => ~Nd(nodes', DeepestOpen(nodes)).open
\* C26: a line that is only a custom tag starts a RawHtml block when the
\* deepest open node is not a Paragraph; under an open Paragraph the matcher
\* declines with the arena as it was, and the line continues the paragraph.  A
\* line that opens one of the kinds 1 to 6 starts a RawHtml block under an open
\* Paragraph too, and that Paragraph is closed
C26_CustomTag == [][C26_Step]_vars
\* a custom tag has continued a paragraph, which an allow-listed tag then closed
C26_Witness ==
  /\ pc = "done"
  /\ buf = <<<<"a">>, <<"<", "x", ">">>, <<"<", "p", ">">>>>
  /\ Nd(nodes, 1).kind = KParagraph /\ ~Nd(nodes, 1).open
  /\ ChildText(nodes, 1) = <<"a", "\n", "<", "x", ">">>
  /\ \E n \in NodeIds(nodes) :
       Nd(nodes, n).kind = KRawHtml /\ ChildText(nodes, n) = RawText(buf, 2, 3)

----------------------------------------------------------------------------
(* try_list: the List an item goes to *)

\* List L takes an item it: L is an open List, the item's marker lies within
\* L's distances, and kind and closing style agree
Qualifies(ns, L, it) ==
  /\ Nd(ns, L).open
  /\ Nd(ns, L).kind.tag = "List"
  /\ Nd(ns, L).kind.data.dist_to_marker <= Len(it.marker)
  /\ Len(it.marker) <=
       Nd(ns, L).kind.data.dist_to_marker + Nd(ns, L).kind.data.dist_after_marker
  /\ Len(it.sp) = 0 \/ Nd(ns, L).kind.data.dist_after_marker <= Len(it.sp)
  /\ Nd(ns, L).kind.data.marker = it.marker_kind
  /\ Nd(ns, L).kind.data.close = it.marker_close
\* the Lists on the open chain that take it
Qualifying(ns, it) == {L \in OnChain(ns) : Qualifies(ns, L, it)}
\* the one of S that stands below all the others
DeepestOf(ns, S) == CHOOSE L \in S : \A M \in S : Inside(ns, L, M)
DescriptorOf(it) ==
  ListData(Len(it.marker), Len(it.sp), it.marker_kind, it.marker_close, it.marker_start)
\* the step adds one node, a ListElement under List L
Attached(L) ==
  /\ Len(nodes') = Len(nodes) + 1
  /\ Nd(nodes', Len(nodes)).kind = KListElement
  /\ ParentOf(nodes', Len(nodes)) = L
\* the step adds a List of the item's descriptor and a ListElement under it
ListCreated(it) ==
  /\ Len(nodes') = Len(nodes) + 2
  /\ Nd(nodes', Len(nodes)).kind = KList(DescriptorOf(it))
  /\ Nd(nodes', Len(nodes) + 1).kind = KListElement
  /\ ParentOf(nodes', Len(nodes) + 1) = Len(nodes)
ItemGoes(it) ==
  IF Qualifying(nodes, it) # {}
  THEN Attached(DeepestOf(nodes, Qualifying(nodes, it)))
  ELSE ListCreated(it)

C27_Step == At("list") => ItemGoes(ListItem(Line))
\* C27: a new item goes to the deepest open List on the open chain whose
\* distances, marker kind and closing style take it, and to a new List of the
\* item's own descriptor when no List does
C27_Attach == [][C27_Step]_vars
\* two Lists took the third item, and it went to the inner one
C27_Witness ==
  /\ pc = "done"
  /\ buf = <<<<"1", ".", " ", " ">>, <<" ", " ", "1", ".", " ", "b">>,
             <<" ", " ", "1", ".", " ", " ", "c">>>>
  /\ \E L, M \in NodeIds(nodes) :
       /\ L # M /\ Inside(nodes, M, L)
       /\ Nd(nodes, L).kind.tag = "List" /\ Nd(nodes, M).kind.tag = "List"
       /\ Len(Nd(nodes, L).blocks) = 1 /\ Len(Nd(nodes, M).blocks) = 2

----------------------------------------------------------------------------
(* try_list: the lines an item takes *)

\* a marker with no content on its line
BlankMarker(line) == IsBlank(ListMatch(line).rem)
\* marker length plus following-space length, or marker length alone
IndentOf(line) ==
  IF BlankMarker(line) THEN Len(ListMatch(line).marker)
  ELSE Len(ListMatch(line).marker) + Len(ListMatch(line).sp)
\* the number of lines from lines[j] on that are whitespace-only or begin with
\* at least indent whitespace characters
RECURSIVE ItemRun(_, _, _)
ItemRun(lines, j, indent) ==
  IF j < Len(lines) /\ (IsBlank(lines[j + 1]) \/ LeadWs(lines[j + 1]) >= indent)
  THEN 1 + ItemRun(lines, j + 1, indent)
  ELSE 0
\* the item at the cursor has no content and the line after it is blank
EndsAtBlank ==
  /\ BlankMarker(Line)
  /\ Top.idx + 1 < Len(Top.lines)
  /\ IsBlank(Top.lines[Top.idx + 2])
\* the step hands the item's line, less its indent, and the n lines after it
\* to a nested parse_lines, and try_list will return n + 1
ItemTakes(n) ==
  /\ Len(stack') = Len(stack) + 1
  /\ stack'[Len(stack)] = Top
  /\ Top'.via = "list" /\ Top'.idx = 0
  /\ Top'.consumed = n + 1
  /\ Top'.lines = <<From(Line, IndentOf(Line))>> \o
                    SubSeq(Top.lines, Top.idx + 2, Top.idx + 1 + n)
\* the nested parse_lines of an item has run through its lines
ItemEnds == AtEnd /\ Len(stack) > 1 /\ Top.via = "list"
\* the caller goes on at the first line the item did not take, the ListElement closed
ItemReturns ==
  /\ pc' = "parse_lines"
  /\ Len(stack') = Len(stack) - 1
  /\ Top'.lines = Caller.lines
  /\ Top'.idx = Caller.idx + Top.consumed
  /\ ~Nd(nodes', Top.node).open
\* no node is added inside a ListElement that is closed
OutsideClosed ==
  \A n \in NewNodes : \A b \in NodeIds(nodes) :
    Nd(nodes, b).kind = KListElement /\ ~Nd(nodes, b).open => ~Inside(nodes', n, b)

C28_AsStatedStep ==
  /\ At("list") => ItemTakes(ItemRun(Top.lines, Top.idx + 1, IndentOf(Line)))
  /\ ItemEnds => ItemReturns
  /\ OutsideClosed
\* C28 as the specification states it: every item takes the following lines
\* that are whitespace-only or indented by at least indent, up to the first
\* line that is neither
C28_AsStated == [][C28_AsStatedStep]_vars

C28_Step ==
  /\ At("list") =>
       ItemTakes(IF EndsAtBlank THEN 0
                 ELSE ItemRun(Top.lines, Top.idx + 1, IndentOf(Line)))
  /\ ItemEnds => ItemReturns
  /\ OutsideClosed
\* C28: an item takes the following lines that are whitespace-only or indented
\* by at least indent (marker length plus following-space length, or marker
\* length alone for a marker with no content), except that an item with no
\* content takes no line when the line after it is whitespace-only; the first
\* line it does not take is dispatched next by the caller, and no node is
\* added inside the closed ListElement
C28_Continuation == [][C28_Step]_vars
\* an item took an indented line and a line short of the indent ended it
C28_Witness ==
  /\ pc = "done"
  /\ buf = <<<<"-", " ", "a">>, <<" ", " ", "a">>, <<" ", "a">>>>
  /\ \E b \in NodeIds(nodes) :
       /\ Nd(nodes, b).kind = KListElement /\ ~Nd(nodes, b).open
       /\ \E n \in NodeIds(nodes) : Inside(nodes, n, b) /\ Nd(nodes, n).kind = KText(NewLine)
  /\ \E n \in NodeIds(nodes) :
       /\ Nd(nodes, n).kind = KParagraph
       /\ \A b \in NodeIds(nodes) : Nd(nodes, b).kind = KListElement => ~Inside(nodes, n, b)

\* the item that returns had no content and the line after it is blank
EndedAtBlank ==
  /\ BlankMarker(Caller.lines[Caller.idx + 1])
  /\ Caller.idx + 1 < Len(Caller.lines)
  /\ IsBlank(Caller.lines[Caller.idx + 2])

C29_AsStatedStep == At("list") /\ EndsAtBlank => Top'.consumed = 2
\* C29 as the specification states it: the list matcher consumes the marker
\* line and the blank line after it
C29_AsStated == [][C29_AsStatedStep]_vars

C29_Step ==
  /\ At("list") /\ EndsAtBlank =>
       /\ Len(stack') = Len(stack) + 1
       /\ Top'.consumed = 1
       /\ Top'.lines = <<From(Line, IndentOf(Line))>>
  /\ ItemEnds /\ EndedAtBlank =>
       /\ ItemReturns
       /\ IsBlank(Top'.lines[Top'.idx + 1])
  /\ OutsideClosed
\* C29: an item with no content on its marker line whose next line is blank
\* ends there: the list matcher consumes the marker line and nothing more, the
\* blank line is dispatched next by the caller, and no later line adds a node
\* inside the item
C29_BlankItem == [][C29_Step]_vars
\* the item is empty and the indented line after the blank line is a paragraph
\* of the document
C29_Witness ==
  /\ pc = "done"
  /\ buf = <<<<"-">>, <<>>, <<" ", " ", "a">>>>
  /\ \E b \in NodeIds(nodes) : Nd(nodes, b).kind = KListElement /\ Nd(nodes, b).blocks = <<>>
  /\ \E n \in NodeIds(nodes) : Nd(nodes, n).kind = KParagraph /\ ParentOf(nodes, n) = root

----------------------------------------------------------------------------
(* parse_marker *)

DigitOf(c) == CHOOSE d \in 0..9 : Digits[d + 1] = c
\* the decimal value of a run of digits, from the left
RECURSIVE ValueOf(_, _)
ValueOf(acc, ds) ==
  IF ds = <<>> THEN acc ELSE ValueOf(10 * acc + DigitOf(Head(ds)), Tail(ds))
\* the 1-based position of a letter in its alphabet
PositionOf(c) ==
  CHOOSE k \in 1..26 : LowerLetters[k] = c \/ UpperLetters[k] = c
Front(w) == SubSeq(w, 1, Len(w) - 1)
ClosingOf(token) ==
  IF token[Len(token)] = "." THEN "Dot" ELSE IF token[Len(token)] = ")" THEN "Bracket" ELSE "None"
\* what the statement has parse_marker make of a token
MarkerOf(token) ==
  CASE token = <<"*">> -> [kind |-> "Bullet", close |-> "None", start |-> 1]
    [] token = <<"-">> -> [kind |-> "Dash", close |-> "None", start |-> 1]
    [] token = <<"+">> -> [kind |-> "Plus", close |-> "None", start |-> 1]
    [] token[1] = "i" -> [kind |-> "LowerRoman", close |-> ClosingOf(token), start |-> 1]
    [] token[1] = "I" -> [kind |-> "UpperRoman", close |-> ClosingOf(token), start |-> 1]
    [] token[1] # "i" /\ IsLower(token[1]) ->
         [kind |-> "LowerAlpha", close |-> ClosingOf(token), start |-> PositionOf(token[1])]
    [] token[1] # "I" /\ IsUpper(token[1]) ->
         [kind |-> "UpperAlpha", close |-> ClosingOf(token), start |-> PositionOf(token[1])]
    [] IsDigit(token[1]) ->
         [kind |-> "Numeric", close |-> ClosingOf(token), start |-> ValueOf(0, Front(token))]

\* C30: parse_marker maps '*', '-' and '+' to Bullet, Dash and Plus with start 1
\* and closing style None, digits before '.' or ')' to Numeric with their
\* decimal value, a letter other than i and I to LowerAlpha or UpperAlpha with
\* its position in the alphabet, i and I to LowerRoman and UpperRoman with
\* start 1, and the closing style is Dot for '.' and Bracket for ')'
C30_ParseMarker == res # NoResult => res = MarkerOf(req)
\* the token 12) has been parsed
C30_Witness ==
  /\ req = <<"1", "2", ")">>
  /\ res = [kind |-> "Numeric", close |-> "Bracket", start |-> 12]

----------------------------------------------------------------------------
(* The inline scanner on one text line: parse(line) for every line of at most
   MaxChars characters of InlineChars that the dispatcher gives to the
   fallback branch.  Of the dispatcher's steps only the fallback, the
   scanner's and build_doc are enabled on such a document. *)

MaxChars == 4
InlineChars == {"_", "*", Backtick, " ", "a", "\\", "<"}
InlineLines ==
  {l \in UNION {[1..k -> InlineChars] : k \in 1..MaxChars} :
     Branch(<<NodeNew(KDoc)>>, l) = "paragraph"}

InitInline == Start({<<l>> : l \in InlineLines})

NextInline ==
  \/ Paragraph
  \/ ScanChar
  \/ ScanEnd
  \/ BuildDoc

SpecInline == InitInline /\ [][NextInline]_vars

InlineMarkers == {"_", "*", Backtick}
\* the character parse_inlines is looking at, and its neighbours
ScanCh == scan.line[scan.idx + 1]
ScanLeft == IF scan.idx > 0 THEN scan.line[scan.idx] ELSE NoChar
ScanRight == IF scan.idx + 1 < Len(scan.line) THEN scan.line[scan.idx + 2] ELSE NoChar
\* parse_inlines is looking at a marker
AtMarker ==
  /\ pc = "parse_inlines"
  /\ scan.idx < Len(scan.line)
  /\ ScanCh \in InlineMarkers
\* the step adds an open Inline node of the marker's tag, as the last node
OpensSpan ==
  /\ Len(nodes') > Len(nodes)
  /\ LastOf(nodes').kind = KInline(InlineTag(ScanCh))
  /\ LastOf(nodes').open

\* C31 as stated: a marker opens a span exactly when its left neighbour is
\* absent or whitespace and its right neighbour is present and not whitespace
C31_AsStated ==
  [][AtMarker =>
       (OpensSpan <=> /\ (ScanLeft = NoChar \/ is_whitespace(ScanLeft))
                      /\ ScanRight # NoChar
                      /\ ~is_whitespace(ScanRight))]_vars

\* C31: while scanning a text line, a '_', '*' or backtick opens an Inline
\* node (em, strong, code) exactly when its left neighbour is absent or
\* whitespace and its right neighbour is present, not whitespace and not the
\* marker character itself
C31_OpensSpan ==
  [][AtMarker =>
       (OpensSpan <=> /\ (ScanLeft = NoChar \/ is_whitespace(ScanLeft))
                      /\ ScanRight # NoChar
                      /\ ~is_whitespace(ScanRight)
                      /\ ScanRight # ScanCh)]_vars
\* a marker after a space and before a letter has just opened its span
C31_Witness ==
  /\ pc = "parse_inlines"
  /\ scan.idx >= 2
  /\ scan.idx < Len(scan.line)
  /\ scan.line[scan.idx] \in InlineMarkers
  /\ scan.line[scan.idx - 1] = " "
  /\ scan.line[scan.idx + 1] = "a"
  /\ LastOf(nodes).kind = KInline(InlineTag(scan.line[scan.idx]))
  /\ LastOf(nodes).open

\* the step clears the open flag of a node
ClosesNode == \E n \in NodeIds(nodes) : Nd(nodes, n).open /\ ~Nd(nodes', n).open
\* the close condition of the statement
CloseStated ==
  /\ ScanLeft # NoChar
  /\ ~is_whitespace(ScanLeft)
  /\ (ScanCh \in {"_", "*"} => ScanLeft # ScanCh)
  /\ (ScanRight = NoChar \/ is_whitespace(ScanRight))

\* C32: a '_', '*' or backtick that does not open a span acts as a close
\* exactly when its left neighbour is present, not whitespace and (for '_' and
\* '*') not the marker itself, and its right neighbour is absent or
\* whitespace; a marker meeting neither condition is kept as literal text: the
\* step adds no node and changes no node's open flag
C32_ClosesSpan ==
  [][AtMarker /\ ~OpensSpan =>
       /\ (ClosesNode <=> CloseStated)
       /\ (~CloseStated => nodes' = nodes)]_vars

\* C33: every time the inline scanner acts on a close marker, the node it
\* closes is an Inline node, never a Paragraph, Header, ListElement, List,
\* Blockquote or the Document
C33_ClosesOnlySpans ==
  [][AtMarker =>
       \A n \in NodeIds(nodes) :
         Nd(nodes, n).open /\ ~Nd(nodes', n).open => Nd(nodes, n).kind.tag = "Inline"]_vars

\* the punctuation characters a backslash escapes
Escapable ==
  {"#", "*", "!", "$", "%", "'", "(", ")", "+", ",", "-", ".", "/", ":", ";", "=",
   "?", "@", "[", "\\", "]", "^", "_", Backtick, "{", "|", "}", "~"}
\* what the statement of the escapes makes of a line from its character i on
RECURSIVE Unescaped(_, _)
Unescaped(l, i) ==
  IF i >= Len(l) THEN <<>>
  ELSE IF l[i + 1] = "\\" /\ i + 1 < Len(l) /\ l[i + 2] \in Escapable
  THEN <<l[i + 2]>> \o Unescaped(l, i + 2)
  ELSE IF l[i + 1] = "\\" /\ i + 1 < Len(l) /\ l[i + 2] \in {"\"", "&", ">", "<"}
  THEN EscapedEntity(l[i + 2]) \o Unescaped(l, i + 2)
  ELSE <<l[i + 1]>> \o Unescaped(l, i + 1)
\* a marker character that no backslash escapes, from character i on
RECURSIVE BareMarker(_, _)
BareMarker(l, i) ==
  IF i >= Len(l) THEN FALSE
  ELSE IF l[i + 1] = "\\" /\ i + 1 < Len(l)
          /\ l[i + 2] \in Escapable \cup {"\"", "&", ">", "<"}
  THEN BareMarker(l, i + 2)
  ELSE l[i + 1] \in InlineMarkers \/ BareMarker(l, i + 1)
\* the line the scanner was given
ScannedLine == Trim(buf[1])

\* C34: a backslash before an escapable punctuation character is dropped and
\* that character is emitted as literal text, not treated as a marker; a
\* backslash before '"', '&', '>' or '<' is replaced with that character by
\* the entity; any other backslash stays.  On a line whose markers are all
\* escaped the parse ends with one open Paragraph holding only Text nodes,
\* whose texts together are the line so rewritten
C34_Escapes ==
  pc = "done" /\ ~BareMarker(ScannedLine, 0) =>
    /\ Nd(nodes, root).blocks = <<1>>
    /\ Nd(nodes, 1).kind = KParagraph
    /\ Nd(nodes, 1).open
    /\ \A k \in 1..Len(Nd(nodes, 1).blocks) : Nd(nodes, Nd(nodes, 1).blocks[k]).kind.tag = "Text"
    /\ TextOf(nodes, Nd(nodes, 1).blocks) = Unescaped(ScannedLine, 0)
\* the line \_\< has been parsed to the text _&lt;
C34_Witness ==
  /\ pc = "done"
  /\ buf = << <<"\\", "_", "\\", "<">> >>
  /\ TextOf(nodes, Nd(nodes, 1).blocks) = <<"_", "&", "l", "t", ";">>

\* where the arena has node n: the positions to follow from the root
RECURSIVE PathOf(_, _)
PathOf(ns, n) ==
  IF n = root THEN <<>>
  ELSE Append(PathOf(ns, ParentOf(ns, n)),
              CHOOSE k \in 1..Len(Nd(ns, ParentOf(ns, n)).blocks) :
                Nd(ns, ParentOf(ns, n)).blocks[k] = n)
\* the Block reached from a list of Blocks along a path of positions
RECURSIVE BlockAt(_, _)
BlockAt(blocks, path) ==
  IF Len(path) = 1 THEN blocks[path[1]]
  ELSE BlockAt(blocks[path[1]].blocks, Tail(path))
\* the number of Blocks in a list of Blocks, with all they hold
RECURSIVE CountBlocks(_)
CountBlocks(blocks) ==
  IF Len(blocks) = 0 THEN 0
  ELSE 1 + CountBlocks(blocks[1].blocks)
         + CountBlocks([k \in 1..(Len(blocks) - 1) |-> blocks[k + 1]])

\* C35: the tree parse returns has the shape of the arena at the end of
\* parsing: every node but the root yields exactly one Block of its kind, at
\* the node's place and with as many children as the node, open or closed
C35_SameShape ==
  pc = "done" =>
    /\ CountBlocks(doc) = Len(nodes) - 1
    /\ Len(doc) = Len(Nd(nodes, root).blocks)
    /\ \A n \in NodeIds(nodes) \ {root} :
         /\ BlockAt(doc, PathOf(nodes, n)).kind = Nd(nodes, n).kind
         /\ Len(BlockAt(doc, PathOf(nodes, n)).blocks) = Len(Nd(nodes, n).blocks)
\* a tree has been returned for an arena with an open node below the root, a
\* closed one, and a node two levels down
C35_Witness ==
  /\ pc = "done"
  /\ \E n \in NodeIds(nodes) \ {root} : Nd(nodes, n).open
  /\ \E n \in NodeIds(nodes) \ {root} : ~Nd(nodes, n).open /\ Len(Nd(nodes, n).blocks) > 0
  /\ \E n \in NodeIds(nodes) \ {root} : Len(PathOf(nodes, n)) >= 3

\* the outermost parse_lines is between two lines, or past the last
TopLevel == pc = "parse_lines" /\ Len(stack) = 1

\* C36: whenever the top-level dispatch loop is about to read a line, every
\* node on the open chain is a Document, List, Paragraph or Inline node; the
\* Header, ThematicBreak, Code, RawHtml, Blockquote and ListElement nodes the
\* matchers opened are closed, and every Text node is closed once added
C36_OpenChainKinds ==
  /\ TopLevel =>
       /\ \A n \in OnChain(nodes) :
            Nd(nodes, n).kind.tag \in {"Doc", "List", "Paragraph", "Inline"}
       /\ \A n \in NodeIds(nodes) :
            Nd(nodes, n).kind.tag \in {"Header", "ThematicBreak", "Code", "RawHtml",
                                       "Blockquote", "ListElement"}
              => ~Nd(nodes, n).open
  /\ \A n \in NodeIds(nodes) : Nd(nodes, n).kind.tag = "Text" => ~Nd(nodes, n).open
\* between two top-level lines, after a header and a list item: both are
\* closed and the List is on the open chain
C36_Witness ==
  /\ TopLevel
  /\ \E n \in NodeIds(nodes) : Nd(nodes, n).kind.tag = "Header" /\ ~Nd(nodes, n).open
  /\ \E n \in NodeIds(nodes) : Nd(nodes, n).kind.tag = "ListElement" /\ ~Nd(nodes, n).open
  /\ \E n \in OnChain(nodes) : Nd(nodes, n).kind.tag = "List"

\* C37: Text and Inline nodes are only ever children of Paragraph, Header,
\* Code, RawHtml or Inline nodes, never direct children of the Document, a
\* Blockquote, a List or a ListElement
C37_TextParents ==
  \A n \in NodeIds(nodes) \ {root} :
    Nd(nodes, n).kind.tag \in {"Text", "Inline"}
      => Nd(nodes, ParentOf(nodes, n)).kind.tag
           \in {"Paragraph", "Header", "Code", "RawHtml", "Inline"}

\* C38: no Paragraph node ever has a Paragraph child: a new Paragraph is
\* attached to the Document, a Blockquote or a ListElement
C38_NoNestedParagraph ==
  \A n \in NodeIds(nodes) \ {root} :
    Nd(nodes, n).kind = KParagraph
      => Nd(nodes, ParentOf(nodes, n)).kind.tag \in {"Doc", "Blockquote", "ListElement"}

\* C39: immediately after the dispatcher processes a blank line, no Paragraph
\* node is on the open chain
C39_BlankEndsParagraph ==
  [][At("blank") => \A n \in OnChain(nodes') : Nd(nodes', n).kind # KParagraph]_vars

\* C40: whenever the list matcher takes a line while the content of a
\* still-open ListElement E is being parsed, the new ListElement is placed in
\* a List that stands below E, never in E's own parent List
C40_NestedItems ==
  [][At("list") =>
       \A f \in 1..Len(stack) :
         stack[f].via = "list" /\ Nd(nodes, stack[f].node).open =>
           \A n \in NewNodes :
             Nd(nodes', n).kind = KListElement
               => Inside(nodes', ParentOf(nodes', n), stack[f].node)]_vars

====
